---- MODULE Spec2Model ----
(***************************************************************************)
(* Verum forensic engine: the layered storage (IndexedDB LocalStore plus   *)
(* optional Firestore replica), the StorageManager facade, the case        *)
(* aggregate recompute of saveReportToDB and the persistence part of       *)
(* handleSubmit, as state machine.  Two App instances (browser tabs of     *)
(* the same origin) share one IndexedDB database and one replica.          *)
(***************************************************************************)
EXTENDS Integers, Sequences, FiniteSets, TLC

\* ------------------------------------------------------------------ bounds
MaxFiles == 1       \* longest file list a tab holds
MaxSubmits == 2     \* handleSubmit runs over all tabs
MaxFaults == 1      \* injected LocalStore / replica failures and stalls
MaxCalls == 3       \* direct calls of the exported storage object
MaxTime == 1        \* latest wall-clock reading of a direct call
MaxEntries == 2     \* longest index list handed to mergeNarrativeIndices
MaxIndices == 2     \* most index lists handed to mergeNarrativeIndices
MaxForm == 2        \* longest file list of a filled-in form
MaxDesc == 2        \* longest file list and descriptor list given to the offline engine
MaxLines == 3       \* longest report text handed to extractNarrativeIndex
MaxRuns == 2        \* most runLocalForensics runs in flight at once

Tabs == {1, 2}
Cases == {"A", "B"}
CaseInputs == {"", "A", "B "}    \* what the operator may type as case reference

\* ------------------------------------------------------------- input data
\* A File: name, MIME type, byte length, modification time (in half hours)
\* and the bytes themselves.
Files ==
    { [name |-> "a.pdf", type |-> "application/pdf", size |-> 2, lastModified |-> 0,
       bytes |-> "b1b2"],
      [name |-> "b.txt", type |-> "", size |-> 1, lastModified |-> 60, bytes |-> "b3"] }

AllBytes == { f.bytes : f \in Files }

\* Report text, as the lines the indexer's regular expressions see: h is the
\* heading level a line matches (2, 3, or 0 for none), title the captured
\* heading text, people/dates/amounts the matches of the three entity
\* patterns on the line.
Line(h, title, people, dates, amounts) ==
    [h |-> h, title |-> title, people |-> people, dates |-> dates, amounts |-> amounts]

Contents ==
    { [id |-> "textA",
       lines |-> << Line(2, "Summary", <<>>, <<>>, <<>>),
                    Line(0, "", <<"Jane Doe">>, <<"2024-01-02">>, <<>>) >>],
      [id |-> "textB",
       lines |-> << Line(2, "Findings", <<>>, <<>>, <<>>),
                    Line(3, "Detail", <<>>, <<>>, <<>>),
                    Line(0, "", <<"Jane Doe">>, <<>>, <<"$100">>) >>] }

\* ------------------------------------------------------- pure functions
\* crypto.subtle.digest('SHA-256', ...) rendered as hex: a function of the
\* bytes only.
\* String.prototype.trim on the case references the operator may type.
trim(s) == IF s = "B " THEN "B" ELSE s

calculateSHA256(bytes) == "sha256(" \o bytes \o ")"

\* extractNarrativeIndex: one pass over the lines carrying currentSection.
RECURSIVE EntityEntries(_, _, _, _)
EntityEntries(vals, subtype, section, lineNum) ==
    IF vals = <<>> THEN <<>>
    ELSE << [type |-> "entity", subtype |-> subtype, level |-> 0, title |-> "",
             value |-> Head(vals), parent |-> section, line |-> lineNum] >>
         \o EntityEntries(Tail(vals), subtype, section, lineNum)

\* A pass in which a level-3 heading also becomes the current section.
RECURSIVE ExtractFrom_H3Carries(_, _, _)
ExtractFrom_H3Carries(lines, lineNum, currentSection) ==
    IF lines = <<>> THEN <<>>
    ELSE LET l == Head(lines)
             section == IF l.h \in {2, 3} THEN l.title ELSE currentSection
             heading ==
                 IF l.h = 2
                 THEN << [type |-> "section", subtype |-> "", level |-> 2,
                          title |-> section, value |-> "", parent |-> "",
                          line |-> lineNum] >>
                 ELSE IF l.h = 3
                 THEN << [type |-> "subsection", subtype |-> "", level |-> 3,
                          title |-> l.title, value |-> "", parent |-> currentSection,
                          line |-> lineNum] >>
                 ELSE <<>>
         IN heading
            \o EntityEntries(l.people, "person", section, lineNum)
            \o EntityEntries(l.dates, "date", section, lineNum)
            \o EntityEntries(l.amounts, "amount", section, lineNum)
            \o ExtractFrom_H3Carries(Tail(lines), lineNum + 1, section)

RECURSIVE ExtractFrom(_, _, _)
ExtractFrom(lines, lineNum, currentSection) ==
    IF lines = <<>> THEN <<>>
    ELSE LET l == Head(lines)
             section == IF l.h = 2 THEN l.title ELSE currentSection
             heading ==
                 IF l.h = 2
                 THEN << [type |-> "section", subtype |-> "", level |-> 2,
                          title |-> section, value |-> "", parent |-> "",
                          line |-> lineNum] >>
                 ELSE IF l.h = 3
                 THEN << [type |-> "subsection", subtype |-> "", level |-> 3,
                          title |-> l.title, value |-> "", parent |-> currentSection,
                          line |-> lineNum] >>
                 ELSE <<>>
         IN heading
            \o EntityEntries(l.people, "person", section, lineNum)
            \o EntityEntries(l.dates, "date", section, lineNum)
            \o EntityEntries(l.amounts, "amount", section, lineNum)
            \o ExtractFrom(Tail(lines), lineNum + 1, section)

extractNarrativeIndex(content) == ExtractFrom(content.lines, 0, "")

\* The key without its last part.
DedupKey_NoValue(item) ==
    item.type \o "-"
    \o (IF item.subtype # "" THEN item.subtype ELSE ToString(item.level))

\* The dedup key of mergeNarrativeIndices: `${type}-${subtype || level}-${value || title}`.
DedupKey(item) ==
    item.type \o "-"
    \o (IF item.subtype # "" THEN item.subtype ELSE ToString(item.level)) \o "-"
    \o (IF item.value # "" THEN item.value ELSE item.title)

\* merged.unshift(item) in place of merged.push(item).
RECURSIVE MergeInto_Unshift(_, _, _)
MergeInto_Unshift(items, merged, seen) ==
    IF items = <<>> THEN merged
    ELSE LET key == DedupKey(Head(items))
         IN IF key \in seen
            THEN MergeInto_Unshift(Tail(items), merged, seen)
            ELSE MergeInto_Unshift(Tail(items), << Head(items) >> \o merged,
                                   seen \cup {key})

RECURSIVE MergeInto(_, _, _)
MergeInto(items, merged, seen) ==
    IF items = <<>> THEN merged
    ELSE LET key == DedupKey(Head(items))
         IN IF key \in seen
            THEN MergeInto(Tail(items), merged, seen)
            ELSE MergeInto(Tail(items), Append(merged, Head(items)), seen \cup {key})

RECURSIVE Flatten(_)
Flatten(indices) ==
    IF indices = <<>> THEN <<>> ELSE Head(indices) \o Flatten(Tail(indices))

\* merge pushing every item, without the seen set.
mergeNarrativeIndices_NoDedup(indices) == Flatten(indices)

mergeNarrativeIndices(indices) == MergeInto(Flatten(indices), <<>>, {})


\* ------------------------------------------------------------------ state
VARIABLES
    syncAvailable,   \* FirebaseSync.isAvailable(): a replica is configured
    reportsStore,    \* IndexedDB object store 'reports' (autoIncrement id = position)
    evidenceStore,   \* IndexedDB object store 'evidence_files'
    metaStore,       \* IndexedDB object store 'case_metadata', keyed by caseId
    replica,         \* Firestore documents, by document path
    exportData,      \* the document a running handleExportAllData holds
    submits,         \* handleSubmit runs so far
    clock,           \* the wall clock (Date.now())
    faults,          \* injected failures so far
    view,            \* per tab: currentView
    caseId,          \* per tab: the case reference typed by the operator
    files,           \* per tab: the file list
    localForensics,  \* per tab: descriptors computed by runLocalForensics
    errorInfo,       \* per tab: diagnostic shown to the operator
    pc,              \* per tab: where its handleSubmit is suspended
    cur,             \* per tab: locals of the running handleSubmit
    wr,              \* per tab: the running StorageManager write
    hist,            \* per tab: what happened in the running handleSubmit
    call,            \* the last direct call of the storage API or of a pure function
    GEMINI_API_KEY,  \* the API key the build carries, '' for a build without one
    isOffline,       \* per tab: the isOffline state fed by the online/offline events
    runs,            \* per tab: the runLocalForensics runs in flight, oldest first
    result           \* per tab: the report text shown, as its lines

vars == << syncAvailable, reportsStore, evidenceStore, metaStore,
           replica, exportData, submits, clock, faults,
           view, caseId, files, localForensics, errorInfo,
           pc, cur, wr, hist, call, GEMINI_API_KEY, isOffline, runs, result >>

stores == << reportsStore, evidenceStore, metaStore >>
ui == << view, caseId, files, localForensics, errorInfo >>
env == << GEMINI_API_KEY, isOffline >>

NoExport == [taken |-> FALSE, cases |-> <<>>]
NoMeta == [reportCount |-> 0, evidenceCount |-> 0, lastReportHash |-> "",
           narrativeIndex |-> <<>>]
NoCur == [caseId |-> "", op |-> "none", mode |-> "online", content |-> "",
          narrativeIndex |-> <<>>,
          reportHash |-> "", fileHashes |-> <<>>, meta |-> NoMeta, idx |-> 0]
NoWrite == [op |-> "none", caseId |-> "", local |-> "none", at |-> 0, syncCalls |-> 0,
            setDoc |-> "none", path |-> <<>>, doc |-> <<>>, result |-> "none"]
NoHist == [storeError |-> FALSE, disturbed |-> FALSE, reportSaved |-> FALSE,
           wentToReport |-> FALSE]
NoCall == [fn |-> "none", caseId |-> "", arg |-> <<>>, before |-> <<>>, ret |-> <<>>,
           done |-> FALSE, n |-> 0]

\* A build with an API key in a browser that is online, nothing being hashed
\* and nothing shown yet.
Keyed ==
    /\ GEMINI_API_KEY = "key"
    /\ isOffline = [p \in Tabs |-> FALSE]
    /\ runs = [p \in Tabs |-> <<>>]
    /\ result = [p \in Tabs |-> <<>>]

Init ==
    /\ syncAvailable \in BOOLEAN
    /\ reportsStore = <<>>
    /\ evidenceStore = <<>>
    /\ metaStore = <<>>
    /\ replica = <<>>
    /\ exportData = NoExport
    /\ submits = 0
    /\ clock = 0
    /\ faults = 0
    /\ view = [p \in Tabs |-> "welcome"]
    /\ caseId = [p \in Tabs |-> ""]
    /\ files = [p \in Tabs |-> <<>>]
    /\ localForensics = [p \in Tabs |-> <<>>]
    /\ errorInfo = [p \in Tabs |-> "none"]
    /\ pc = [p \in Tabs |-> "idle"]
    /\ cur = [p \in Tabs |-> NoCur]
    /\ wr = [p \in Tabs |-> NoWrite]
    /\ hist = [p \in Tabs |-> NoHist]
    /\ call = NoCall
    /\ Keyed

\* loading is set at the start of handleSubmit and cleared when it returns.
loading(p) == pc[p] # "idle"


\* --------------------------------------------------------------- LocalStore
\* IndexedDBStorage.saveReport: store.add({...data, caseId, timestamp}).
LS_saveReport(store, c, data, now) ==
    Append(store, [caseId |-> c, timestamp |-> now] @@ data)

\* results.sort((a, b) => time(a) - time(b)): a stable sort by timestamp.
RECURSIVE InsertByTimestamp(_, _)
InsertByTimestamp(sorted, r) ==
    IF sorted = <<>> THEN << r >>
    ELSE IF Head(sorted).timestamp <= r.timestamp
         THEN << Head(sorted) >> \o InsertByTimestamp(Tail(sorted), r)
         ELSE << r >> \o sorted

RECURSIVE SortByTimestamp(_)
SortByTimestamp(rs) ==
    IF rs = <<>> THEN <<>>
    ELSE InsertByTimestamp(SortByTimestamp(SubSeq(rs, 1, Len(rs) - 1)), rs[Len(rs)])

\* getReports without the sort: the records in key (insertion) order.
LS_getReports_Unsorted(store, c) ==
    SelectSeq(store, LAMBDA r : r.caseId = c)

\* getReports reading the whole store instead of the caseId index.
LS_getReports_AllCases(store, c) ==
    SortByTimestamp(store)

\* IndexedDBStorage.getReports: index.getAll(only(caseId)), then the sort.
LS_getReports(store, c) ==
    SortByTimestamp(SelectSeq(store, LAMBDA r : r.caseId = c))

\* IndexedDBStorage.saveEvidence: store.add({...data, caseId, timestamp});
\* the generated timestamp of an evidence record is read by nothing and is
\* left out of the record.
LS_saveEvidence(store, c, data) ==
    Append(store, [caseId |-> c] @@ data)

\* IndexedDBStorage.getEvidence: index.getAll(only(caseId)).
LS_getEvidence(store, c) ==
    SelectSeq(store, LAMBDA e : e.caseId = c)

\* A store whose records all share one key: put replaces whatever is stored.
LS_saveCaseMetadata_OneRecord(store, c, data) ==
    [k \in {c} |-> [caseId |-> c] @@ data]

\* IndexedDBStorage.saveCaseMetadata: store.put({...data, caseId}) replaces
\* the record stored under the key caseId.
LS_saveCaseMetadata(store, c, data) ==
    [k \in DOMAIN store \cup {c} |-> IF k = c THEN [caseId |-> c] @@ data ELSE store[k]]

\* IndexedDBStorage.getCaseMetadata: request.result || null.
LS_getCaseMetadata(store, c) ==
    IF c \in DOMAIN store THEN store[c] ELSE [caseId |-> ""]

\* IndexedDBStorage.getAllCases: the distinct truthy caseIds of all reports.
LS_getAllCases(store) ==
    { store[i].caseId : i \in DOMAIN store } \ {""}

\* ------------------------------------------------------------ FirebaseSync
\* data.id || Date.now().toString(): the payloads built by StorageManager
\* carry no id, so the document id is the clock reading.
DocId(data, now) ==
    IF "id" \in DOMAIN data THEN data.id ELSE ToString(now)

\* syncReport: doc(db, 'cases', caseId, 'reports', id), payload {...data}.
SyncReportPath(c, data, now) == << "cases", c, "reports", DocId(data, now) >>
SyncReportDoc(data) == data

\* syncEvidence sending the record as it was stored.
SyncEvidenceDoc_Whole(data) ==
    [note |-> "Binary data stored locally only"] @@ data

\* syncEvidence: const { binaryData, ...metadata } = data; the payload is
\* {...metadata, note}.
SyncEvidencePath(c, data, now) == << "cases", c, "evidence", DocId(data, now) >>
SyncEvidenceDoc(data) ==
    [note |-> "Binary data stored locally only"]
    @@ [k \in DOMAIN data \ {"binaryData"} |-> data[k]]

\* syncMetadata: doc(db, 'cases', caseId), setDoc(..., {merge: true}).
SyncMetadataPath(c) == << "cases", c >>
SyncMetadataDoc(data) == data

\* What setDoc leaves in the replica: a merge for the case document, a
\* replacement for report and evidence documents.
SetDoc(rep, path, payload, merge) ==
    [k \in DOMAIN rep \cup {path} |->
        IF k # path THEN rep[k]
        ELSE IF merge /\ path \in DOMAIN rep THEN payload @@ rep[path]
        ELSE payload]

\* The sync methods without their try/catch.
SyncCatch_Rethrow(outcome) == IF outcome = "error" THEN "threw" ELSE "returned"

\* The try/catch of syncReport, syncEvidence and syncMetadata: a failing
\* setDoc is logged and the method returns normally.
SyncCatch(outcome) == "returned"

\* ---------------------------------------------------------- StorageManager
\* StorageManager.saveReport: data = {content, evidence, ...metadata}.
ReportData(content, evidence, extra) ==
    [content |-> content, evidence |-> evidence] @@ extra

\* StorageManager.saveEvidence: the record built from the File.
EvidenceData(file, fileHash, metadata) ==
    [fileName |-> file.name, fileType |-> file.type, fileSize |-> file.size,
     fileHash |-> fileHash, binaryData |-> file.bytes, metadata |-> metadata]

\* The StorageManager methods going on to the replica whatever the local
\* write did.
AfterLocal_IgnoreFailure(ok, available) ==
    IF available THEN "sync" ELSE "return"

\* The body shared by saveReport, saveEvidence and saveCaseMetadata after
\* 'await this.primary.save...': a rejected local write rejects the whole
\* call, otherwise the replica is called when one is configured.
AfterLocal(ok, available) ==
    IF ~ok THEN "throw" ELSE IF available THEN "sync" ELSE "return"

\* exportAllData copying the evidence records unchanged.
Redact_Keep(e) == e

\* exportAllData: {...e, binaryData: `<BINARY ${e.fileSize} bytes>`}.
Redact(e) == [binaryData |-> "<BINARY " \o ToString(e.fileSize) \o " bytes>"] @@ e

RedactAll(es) == [i \in DOMAIN es |-> Redact(es[i])]

\* StorageManager.exportAllData, with the reads taken as one snapshot.
ExportAllData(rs, es, ms) ==
    [taken |-> TRUE,
     cases |-> [c \in LS_getAllCases(rs) |->
                  [reports |-> LS_getReports(rs, c),
                   evidence |-> RedactAll(LS_getEvidence(es, c)),
                   metadata |-> LS_getCaseMetadata(ms, c)]]]


\* --------------------------------------------------------------- App (UI)
\* With an API key in the build and the browser online handleSubmit takes
\* the branch of the reasoning service, whose report text is any of Contents.

\* The document of handleExportAllData is local to that handler: whatever
\* runs next no longer sees it.
DropExport == exportData' = NoExport

\* 'Start New Analysis' on the welcome view.
StartNewAnalysis(p) ==
    /\ view[p] = "welcome"
    /\ view' = [view EXCEPT ![p] = "analysis"]
    /\ caseId' = [caseId EXCEPT ![p] = ""]
    /\ DropExport
    /\ UNCHANGED << syncAvailable, env, runs, result, call, stores, replica, submits, clock, faults,
                    files, localForensics, errorInfo, pc, cur, wr, hist >>

\* handleNewAnalysis on the report view; the effect on [files] then runs with
\* an empty list and clears localForensics.
handleNewAnalysis(p) ==
    /\ view[p] = "report"
    /\ ~loading(p)
    /\ view' = [view EXCEPT ![p] = "analysis"]
    /\ files' = [files EXCEPT ![p] = <<>>]
    /\ localForensics' = [localForensics EXCEPT ![p] = <<>>]
    /\ errorInfo' = [errorInfo EXCEPT ![p] = "none"]
    /\ cur' = [cur EXCEPT ![p] = NoCur]
    /\ wr' = [wr EXCEPT ![p] = NoWrite]
    /\ hist' = [hist EXCEPT ![p] = NoHist]
    /\ DropExport
    /\ result' = [result EXCEPT ![p] = <<>>]
    /\ UNCHANGED << syncAvailable, env, runs, call, stores, replica, submits, clock, faults,
                    caseId, pc >>

\* The case reference input: setCaseId(e.target.value).
setCaseId(p, c) ==
    /\ view[p] = "analysis"
    /\ ~loading(p)
    /\ c # caseId[p]
    /\ caseId' = [caseId EXCEPT ![p] = c]
    /\ DropExport
    /\ UNCHANGED << syncAvailable, env, runs, result, call, stores, replica, submits, clock, faults,
                    view, files, localForensics, errorInfo, pc, cur, wr, hist >>

\* One descriptor of runLocalForensics.
Descriptor(f) ==
    [name |-> f.name, type |-> f.type, size |-> f.size, lastModified |-> f.lastModified,
     hash |-> calculateSHA256(f.bytes)]

\* The analysis of runLocalForensics: Promise.all over the files.
Analysis(fs) == [i \in DOMAIN fs |-> Descriptor(fs[i])]

\* handleFileChange: the chosen file is appended (the input is disabled
\* while loading); the effect on [files] then hashes the new list and
\* setLocalForensics(analysis) is taken to run before the next event.
handleFileChange(p, f) ==
    /\ view[p] = "analysis"
    /\ ~loading(p)
    /\ Len(files[p]) < MaxFiles
    /\ files' = [files EXCEPT ![p] = Append(@, f)]
    /\ localForensics' = [localForensics EXCEPT ![p] = Analysis(Append(files[p], f))]
    /\ errorInfo' = [errorInfo EXCEPT ![p] = "none"]
    /\ DropExport
    /\ UNCHANGED << syncAvailable, env, runs, result, call, stores, replica, submits, clock, faults,
                    view, caseId, pc, cur, wr, hist >>

\* localForensics.find(f => f.name === file.name)?.hash || ''
FindHash(lf, name) ==
    IF \E i \in DOMAIN lf : lf[i].name = name
    THEN lf[CHOOSE i \in DOMAIN lf :
                /\ lf[i].name = name
                /\ \A j \in DOMAIN lf : lf[j].name = name => i <= j].hash
    ELSE ""

FileNames(fs) == [i \in DOMAIN fs |-> fs[i].name]

\* Another tab is inside handleSubmit for the same case.
Busy(q, c) == pc[q] # "idle" /\ cur[q].caseId = c

\* The submit button is rendered with disabled={loading || isOffline}.
CanSubmit(p) == view[p] = "analysis" /\ ~loading(p) /\ ~isOffline[p]

\* if (isOffline || !GEMINI_API_KEY)
OfflineMode(p) == isOffline[p] \/ GEMINI_API_KEY = ""

\* handleSubmit up to the first storage call, without files or with the
\* reasoning service answering.  The wall clock has advanced by one tick since
\* the previous run.
handleSubmit(p) ==
    /\ CanSubmit(p)
    /\ IF files[p] = <<>>
       THEN /\ errorInfo[p] # "USER_ERR"
            /\ errorInfo' = [errorInfo EXCEPT ![p] = "USER_ERR"]
            /\ UNCHANGED << submits, clock, view, pc, cur, wr, hist, result >>
       ELSE /\ ~OfflineMode(p)
            /\ submits < MaxSubmits
            /\ submits' = submits + 1
            /\ clock' = clock + 1
            /\ errorInfo' = [errorInfo EXCEPT ![p] = "none"]
            /\ \E content \in Contents :
                 LET c == trim(caseId[p]) IN
                 /\ result' = [result EXCEPT ![p] = << content.id >>]
                 /\ IF c = ""
                    THEN /\ view' = [view EXCEPT ![p] = "report"]
                         /\ hist' = [hist EXCEPT ![p] = [NoHist EXCEPT !.wentToReport = TRUE]]
                         /\ cur' = [cur EXCEPT ![p] = NoCur]
                         /\ wr' = [wr EXCEPT ![p] = NoWrite]
                         /\ UNCHANGED pc
                    ELSE /\ pc' = [pc EXCEPT ![p] = "local"]
                         /\ cur' = [cur EXCEPT ![p] =
                                [caseId |-> c, op |-> "report", mode |-> "online",
                                 content |-> content.id,
                                 narrativeIndex |-> extractNarrativeIndex(content),
                                 reportHash |-> calculateSHA256(content.id),
                                 fileHashes |-> [i \in DOMAIN files[p] |->
                                     FindHash(localForensics[p], files[p][i].name)],
                                 meta |-> NoMeta, idx |-> 0]]
                         /\ wr' = [wr EXCEPT ![p] = NoWrite]
                         /\ hist' = [q \in Tabs |->
                                IF q = p
                                THEN [NoHist EXCEPT !.disturbed =
                                         \E r \in Tabs \ {p} : Busy(r, c)]
                                ELSE IF cur[q].caseId = c
                                     THEN [hist[q] EXCEPT !.disturbed = TRUE]
                                     ELSE hist[q]]
                         /\ UNCHANGED view
    /\ DropExport
    /\ UNCHANGED << syncAvailable, env, runs, call, stores, replica, faults,
                    caseId, files, localForensics >>

\* ------------------------------------------- handleSubmit: the storage part
\* The payload of the StorageManager write the tab is executing.
CurData(p) ==
    CASE cur[p].op = "report" ->
            ReportData(cur[p].content, FileNames(files[p]),
                       [reportHash |-> cur[p].reportHash,
                        narrativeIndex |-> cur[p].narrativeIndex])
      [] cur[p].op = "evidence" ->
            EvidenceData(files[p][cur[p].idx], cur[p].fileHashes[cur[p].idx],
                         [analysisMode |-> cur[p].mode])
      [] OTHER -> cur[p].meta

\* Where handleSubmit continues when the StorageManager write of the tab
\* returns (threw = FALSE) or rejects (threw = TRUE).  saveReportToDB and
\* saveEvidenceFileToDB catch and log every rejection, so handleSubmit goes
\* on to the evidence loop and to the next file either way.
After(p, threw) ==
    LET evStart == [pc |-> "local", cur |-> [cur[p] EXCEPT !.op = "evidence", !.idx = 1]]
    IN CASE cur[p].op = "report" /\ ~threw -> [pc |-> "getReports", cur |-> cur[p]]
         [] cur[p].op = "report" /\ threw -> evStart
         [] cur[p].op = "meta" -> evStart
         [] OTHER ->
              IF cur[p].idx < Len(files[p])
              THEN [pc |-> "local", cur |-> [cur[p] EXCEPT !.idx = @ + 1]]
              ELSE [pc |-> "refresh", cur |-> cur[p]]

Continue(p, threw, w, h) ==
    /\ pc' = [pc EXCEPT ![p] = After(p, threw).pc]
    /\ cur' = [cur EXCEPT ![p] = After(p, threw).cur]
    /\ wr' = [wr EXCEPT ![p] = [w EXCEPT !.result = IF threw THEN "rejected" ELSE "resolved"]]
    /\ hist' = [hist EXCEPT ![p] =
                  [h EXCEPT !.reportSaved = @ \/ (cur[p].op = "meta" /\ ~threw)]]

\* 'await this.primary.save...(caseId, data)': the IndexedDB transaction
\* completes (ok) or fails (tx.onerror), and the StorageManager method goes
\* on as AfterLocal says.
LocalWrite(p) ==
    /\ pc[p] = "local"
    /\ \E ok \in BOOLEAN :
         LET c == cur[p].caseId
             op == cur[p].op
             now == clock
             w == [NoWrite EXCEPT !.op = op, !.caseId = c,
                                  !.local = IF ok THEN "ok" ELSE "failed",
                                  !.at = CASE ok /\ op = "report" -> Len(reportsStore) + 1
                                           [] ok /\ op = "evidence" -> Len(evidenceStore) + 1
                                           [] OTHER -> 0]
             h == [hist[p] EXCEPT !.storeError = @ \/ ~ok]
             next == AfterLocal(ok, syncAvailable)
         IN /\ ok \/ faults < MaxFaults
            /\ faults' = IF ok THEN faults ELSE faults + 1
            /\ reportsStore' = IF ok /\ op = "report"
                               THEN LS_saveReport(reportsStore, c, CurData(p), now)
                               ELSE reportsStore
            /\ evidenceStore' = IF ok /\ op = "evidence"
                                THEN LS_saveEvidence(evidenceStore, c, CurData(p))
                                ELSE evidenceStore
            /\ metaStore' = IF ok /\ op = "meta"
                            THEN LS_saveCaseMetadata(metaStore, c, CurData(p))
                            ELSE metaStore
            /\ IF next = "sync"
               THEN /\ pc' = [pc EXCEPT ![p] = "sync"]
                    /\ wr' = [wr EXCEPT ![p] = [w EXCEPT !.result = "pending"]]
                    /\ hist' = [hist EXCEPT ![p] = h]
                    /\ UNCHANGED cur
               ELSE Continue(p, next = "throw", w, h)
    /\ DropExport
    /\ UNCHANGED << syncAvailable, env, runs, result, call, replica, submits, clock, ui >>

\* 'await this.sync.sync...(caseId, data)' up to setDoc: the method returns
\* at once without a database; otherwise it builds the document reference and
\* the payload and hands them to setDoc.
SyncCall(p) ==
    /\ pc[p] = "sync"
    /\ IF ~syncAvailable
       THEN Continue(p, wr[p].local # "ok", wr[p], hist[p])
       ELSE   LET c == cur[p].caseId
                  op == cur[p].op
                  now == clock
                  path == CASE op = "report" -> SyncReportPath(c, CurData(p), now)
                            [] op = "evidence" -> SyncEvidencePath(c, CurData(p), now)
                            [] OTHER -> SyncMetadataPath(c)
                  payload == CASE op = "report" -> SyncReportDoc(CurData(p))
                               [] op = "evidence" -> SyncEvidenceDoc(CurData(p))
                               [] OTHER -> SyncMetadataDoc(CurData(p))
              IN /\ wr' = [wr EXCEPT ![p] = [@ EXCEPT !.syncCalls = @ + 1,
                                                      !.setDoc = "pending",
                                                      !.path = path, !.doc = payload]]
                 /\ pc' = [pc EXCEPT ![p] = "wait"]
                 /\ UNCHANGED << cur, hist >>
    /\ DropExport
    /\ UNCHANGED << syncAvailable, env, runs, result, call, stores, replica, submits, clock, faults, ui >>

\* setDoc settles: the document is written, or the call throws and the
\* method's catch decides what the caller sees.
SetDocSettle(p) ==
    /\ pc[p] = "wait"
    /\ wr[p].setDoc = "pending"
    /\ \E outcome \in {"ok", "error"} :
         /\ outcome = "error" => faults < MaxFaults
         /\ faults' = IF outcome = "ok" THEN faults ELSE faults + 1
         /\ replica' = IF outcome = "ok"
                       THEN SetDoc(replica, wr[p].path, wr[p].doc, cur[p].op = "meta")
                       ELSE replica
         /\ Continue(p, (SyncCatch(outcome) # "returned") \/ wr[p].local # "ok",
                     [wr[p] EXCEPT !.setDoc = outcome], hist[p])
    /\ DropExport
    /\ UNCHANGED << syncAvailable, env, runs, result, call, stores, submits, clock, ui >>

\* setDoc never settles (Firestore keeps the write pending while the backend
\* is unreachable): the awaiting method stays suspended.
SetDocStall(p) ==
    /\ pc[p] = "wait"
    /\ wr[p].setDoc = "pending"
    /\ faults < MaxFaults
    /\ faults' = faults + 1
    /\ wr' = [wr EXCEPT ![p] = [@ EXCEPT !.setDoc = "stalled"]]
    /\ DropExport
    /\ UNCHANGED << syncAvailable, env, runs, result, call, stores, replica, submits, clock, ui, pc, cur, hist >>

\* saveReportToDB after the report is saved: 'await storage.getReports' and
\* the fields of the recomputed aggregate (updatedAt is read by nothing and
\* is left out).  evidence is the name list of the submitted files.
\* An aggregate maintained incrementally: the index of the newest report only.
CaseAggregate_LatestOnly(reports, evidence, reportHash) ==
    [reportCount |-> Len(reports),
     evidenceCount |-> Len(evidence),
     lastReportHash |-> reportHash,
     narrativeIndex |-> IF reports = <<>> THEN <<>> ELSE reports[1].narrativeIndex]

CaseAggregate(reports, evidence, reportHash) ==
    [reportCount |-> Len(reports),
     evidenceCount |-> Len(evidence),
     lastReportHash |-> reportHash,
     narrativeIndex |-> mergeNarrativeIndices(
                            [i \in DOMAIN reports |-> reports[i].narrativeIndex])]

GetReports(p) ==
    /\ pc[p] = "getReports"
    /\ \E ok \in BOOLEAN :
         /\ ok \/ faults < MaxFaults
         /\ faults' = IF ok THEN faults ELSE faults + 1
         /\ pc' = [pc EXCEPT ![p] = "local"]
         /\ IF ok
            THEN /\ cur' = [cur EXCEPT ![p] =
                        [@ EXCEPT !.op = "meta",
                                  !.meta = CaseAggregate(
                                      LS_getReports(reportsStore, cur[p].caseId),
                                      FileNames(files[p]), cur[p].reportHash)]]
                 /\ UNCHANGED hist
            ELSE /\ cur' = [cur EXCEPT ![p] = [@ EXCEPT !.op = "evidence", !.idx = 1]]
                 /\ hist' = [hist EXCEPT ![p] = [@ EXCEPT !.storeError = TRUE]]
    /\ DropExport
    /\ UNCHANGED << syncAvailable, env, runs, result, call, stores, replica, submits, clock, ui, wr >>

\* The end of handleSubmit: refreshCaseList (it catches its own failures and
\* only feeds the case list of the welcome view), setCurrentView('report'),
\* setLoading(false).
FinishSubmit(p) ==
    /\ pc[p] = "refresh"
    /\ view' = [view EXCEPT ![p] = "report"]
    /\ pc' = [pc EXCEPT ![p] = "idle"]
    /\ hist' = [hist EXCEPT ![p] = [@ EXCEPT !.wentToReport = TRUE]]
    /\ DropExport
    /\ UNCHANGED << syncAvailable, env, runs, result, call, stores, replica, submits, clock, faults,
                    caseId, files, localForensics, errorInfo, cur, wr >>

\* handleExportAllData: storage.exportAllData(), downloaded as one document.
handleExportAllData ==
    /\ ~exportData.taken
    /\ exportData' = ExportAllData(reportsStore, evidenceStore, metaStore)
    /\ UNCHANGED << syncAvailable, env, runs, result, call, stores, replica, submits, clock, faults, ui,
                    pc, cur, wr, hist >>

\* One App instance.
Solo == {1}

Next ==
    \/ \E p \in Solo : StartNewAnalysis(p)
    \/ \E p \in Solo : handleNewAnalysis(p)
    \/ \E p \in Solo, c \in CaseInputs : setCaseId(p, c)
    \/ \E p \in Solo, f \in Files : handleFileChange(p, f)
    \/ \E p \in Solo : handleSubmit(p)
    \/ \E p \in Solo : LocalWrite(p)
    \/ \E p \in Solo : SyncCall(p)
    \/ \E p \in Solo : SetDocSettle(p)
    \/ \E p \in Solo : SetDocStall(p)
    \/ \E p \in Solo : GetReports(p)
    \/ \E p \in Solo : FinishSubmit(p)
    \/ handleExportAllData

Spec == Init /\ [][Next]_vars

\* Two App instances with their forms filled in, submitting concurrently.
TabsInit ==
    /\ syncAvailable \in BOOLEAN
    /\ reportsStore = <<>>
    /\ evidenceStore = <<>>
    /\ metaStore = <<>>
    /\ replica = <<>>
    /\ exportData = NoExport
    /\ submits = 0
    /\ clock = 0
    /\ faults = 0
    /\ view = [p \in Tabs |-> "analysis"]
    /\ caseId \in [Tabs -> CaseInputs \ {""}]
    /\ \E f \in Files : files = [p \in Tabs |-> << f >>]
    /\ localForensics = [p \in Tabs |-> Analysis(files[p])]
    /\ errorInfo = [p \in Tabs |-> "none"]
    /\ pc = [p \in Tabs |-> "idle"]
    /\ cur = [p \in Tabs |-> NoCur]
    /\ wr = [p \in Tabs |-> NoWrite]
    /\ hist = [p \in Tabs |-> NoHist]
    /\ call = NoCall
    /\ Keyed

TabsNext ==
    \/ \E p \in Tabs : handleSubmit(p)
    \/ \E p \in Tabs : LocalWrite(p)
    \/ \E p \in Tabs : SyncCall(p)
    \/ \E p \in Tabs : SetDocSettle(p)
    \/ \E p \in Tabs : SetDocStall(p)
    \/ \E p \in Tabs : GetReports(p)
    \/ \E p \in Tabs : FinishSubmit(p)

TabsSpec == TabsInit /\ [][TabsNext]_vars


\* ------------------------------------------------- a filled-in form
SeqsUpTo(S, n) == UNION { [1..k -> S] : k \in 0..n }

\* Files the operator may add to the list; two of them (picked from different
\* folders) have the same name and different bytes.
FormFiles ==
    Files \cup { [name |-> "a.pdf", type |-> "application/pdf", size |-> 1,
                  lastModified |-> 2, bytes |-> "b4"] }

FormFileLists == SeqsUpTo(FormFiles, MaxForm) \ { <<>> }

\* One App instance on the analysis view with a case reference and a file
\* list.  The effect on [files] hashes asynchronously and the submit button
\* is disabled only while loading: localForensics holds the descriptors of
\* the list as it was hashed 'hashed' files long (0: no run has finished yet).
FormInit ==
    /\ syncAvailable \in BOOLEAN
    /\ reportsStore = <<>>
    /\ evidenceStore = <<>>
    /\ metaStore = <<>>
    /\ replica = <<>>
    /\ exportData = NoExport
    /\ submits = 0
    /\ clock = 0
    /\ faults = 0
    /\ view = [p \in Tabs |-> IF p \in Solo THEN "analysis" ELSE "welcome"]
    /\ caseId = [p \in Tabs |-> IF p \in Solo THEN "A" ELSE ""]
    /\ \E fs \in FormFileLists, hashed \in 0..MaxForm :
          /\ hashed <= Len(fs)
          /\ files = [p \in Tabs |-> IF p \in Solo THEN fs ELSE <<>>]
          /\ localForensics = [p \in Tabs |->
                 IF p \in Solo THEN Analysis(SubSeq(fs, 1, hashed)) ELSE <<>>]
    /\ errorInfo = [p \in Tabs |-> "none"]
    /\ pc = [p \in Tabs |-> "idle"]
    /\ cur = [p \in Tabs |-> NoCur]
    /\ wr = [p \in Tabs |-> NoWrite]
    /\ hist = [p \in Tabs |-> NoHist]
    /\ call = NoCall
    /\ Keyed

FormNext ==
    \/ \E p \in Solo : handleSubmit(p)
    \/ \E p \in Solo : LocalWrite(p)
    \/ \E p \in Solo : SyncCall(p)
    \/ \E p \in Solo : SetDocSettle(p)
    \/ \E p \in Solo : SetDocStall(p)
    \/ \E p \in Solo : GetReports(p)
    \/ \E p \in Solo : FinishSubmit(p)

FormSpec == FormInit /\ [][FormNext]_vars

\* ------------------------------------------- the exported storage object
\* 'export const storage = new StorageManager()': any caller of the module may
\* use the facade directly.  Each action below is one awaited call, the
\* LocalStore transaction and the replica call included, with no failure
\* injected.  The wall clock read by IndexedDBStorage.saveReport is not
\* monotonic (it can be set back between two calls), so a report appended
\* later may carry an earlier timestamp.
ApiCases == {"", "A"}

\* The field sets a caller passes to saveCaseMetadata: descriptive attributes
\* of the Case, and the counters saveReportToDB writes.
MetaFields ==
    { [createdAt |-> 0, tags |-> << "urgent" >>],
      [reportCount |-> 1, evidenceCount |-> 0, lastReportHash |-> "",
       narrativeIndex |-> <<>>] }

\* doc(db, ...segments) rejects a path with an empty segment; setDoc is then
\* never reached and the catch of the sync method logs the error.
SyncTry(rep, path, payload, merge) ==
    IF ~syncAvailable \/ (\E i \in DOMAIN path : path[i] = "")
    THEN rep
    ELSE SetDoc(rep, path, payload, merge)

Called(fn, c, arg, ret) ==
    call' = [fn |-> fn, caseId |-> c, arg |-> arg,
             before |-> << reportsStore, evidenceStore, metaStore, replica >>,
             ret |-> ret, done |-> TRUE, n |-> call.n + 1]

\* storage.saveReport(caseId, content, evidence, metadata)
storage_saveReport(c, now) ==
    /\ call.n < MaxCalls
    /\ LET content == "r" \o ToString(call.n + 1)
           data == ReportData(content, <<>>,
                              [reportHash |-> calculateSHA256(content),
                               narrativeIndex |-> <<>>])
       IN /\ reportsStore' = LS_saveReport(reportsStore, c, data, now)
          /\ replica' = SyncTry(replica, SyncReportPath(c, data, now),
                                SyncReportDoc(data), FALSE)
          /\ Called("saveReport", c, data, "resolved")
    /\ clock' = now
    /\ UNCHANGED << syncAvailable, env, runs, result, evidenceStore, metaStore, exportData, submits,
                    faults, ui, pc, cur, wr, hist >>

\* storage.saveEvidence(caseId, file, fileHash, metadata)
storage_saveEvidence(c, f) ==
    /\ call.n < MaxCalls
    /\ LET data == EvidenceData(f, calculateSHA256(f.bytes), [analysisMode |-> "online"])
       IN /\ evidenceStore' = LS_saveEvidence(evidenceStore, c, data)
          /\ replica' = SyncTry(replica, SyncEvidencePath(c, data, clock),
                                SyncEvidenceDoc(data), FALSE)
          /\ Called("saveEvidence", c, data, "resolved")
    /\ UNCHANGED << syncAvailable, env, runs, result, reportsStore, metaStore, exportData, submits,
                    clock, faults, ui, pc, cur, wr, hist >>

\* storage.saveCaseMetadata(caseId, metadata)
storage_saveCaseMetadata(c, fields) ==
    /\ call.n < MaxCalls
    /\ metaStore' = LS_saveCaseMetadata(metaStore, c, fields)
    /\ replica' = SyncTry(replica, SyncMetadataPath(c), SyncMetadataDoc(fields), TRUE)
    /\ Called("saveCaseMetadata", c, fields, "resolved")
    /\ UNCHANGED << syncAvailable, env, runs, result, reportsStore, evidenceStore, exportData, submits,
                    clock, faults, ui, pc, cur, wr, hist >>

\* storage.getReports(caseId)
storage_getReports(c) ==
    /\ call.n < MaxCalls
    /\ Called("getReports", c, <<>>, LS_getReports(reportsStore, c))
    /\ UNCHANGED << syncAvailable, env, runs, result, stores, replica, exportData, submits,
                    clock, faults, ui, pc, cur, wr, hist >>

StoreNext ==
    \/ \E c \in ApiCases, now \in 0..MaxTime : storage_saveReport(c, now)
    \/ \E c \in ApiCases, f \in Files : storage_saveEvidence(c, f)
    \/ \E c \in ApiCases, fields \in MetaFields : storage_saveCaseMetadata(c, fields)
    \/ \E c \in ApiCases : storage_getReports(c)

StoreSpec == Init /\ [][StoreNext]_vars


\* ------------------------------------------------ pure functions, called
\* The program state of a freshly loaded App beside a pending call.
PureInit(calls) ==
    /\ syncAvailable = FALSE
    /\ reportsStore = <<>>
    /\ evidenceStore = <<>>
    /\ metaStore = <<>>
    /\ replica = <<>>
    /\ exportData = NoExport
    /\ submits = 0
    /\ clock = 0
    /\ faults = 0
    /\ view = [p \in Tabs |-> "welcome"]
    /\ caseId = [p \in Tabs |-> ""]
    /\ files = [p \in Tabs |-> <<>>]
    /\ localForensics = [p \in Tabs |-> <<>>]
    /\ errorInfo = [p \in Tabs |-> "none"]
    /\ pc = [p \in Tabs |-> "idle"]
    /\ cur = [p \in Tabs |-> NoCur]
    /\ wr = [p \in Tabs |-> NoWrite]
    /\ hist = [p \in Tabs |-> NoHist]
    /\ call \in calls
    /\ Keyed

Pending(fn, arg) == [NoCall EXCEPT !.fn = fn, !.arg = arg]

Returns(ret) ==
    /\ call' = [call EXCEPT !.ret = ret, !.done = TRUE, !.n = 1]
    /\ UNCHANGED << syncAvailable, env, runs, result, stores, replica, exportData, submits, clock,
                    faults, ui, pc, cur, wr, hist >>

\* Index entries as extractNarrativeIndex emits them: the same person found
\* by two reports (one dedup key, two records) and another person.
IndexEntries ==
    { [type |-> "entity", subtype |-> "person", level |-> 0, title |-> "",
       value |-> "Jane Doe", parent |-> "Summary", line |-> 1],
      [type |-> "entity", subtype |-> "person", level |-> 0, title |-> "",
       value |-> "Jane Doe", parent |-> "Findings", line |-> 2],
      [type |-> "entity", subtype |-> "person", level |-> 0, title |-> "",
       value |-> "John Roe", parent |-> "Findings", line |-> 3] }

MergeInputs == SeqsUpTo(SeqsUpTo(IndexEntries, MaxEntries), MaxIndices)

\* mergeNarrativeIndices(indices)
Call_mergeNarrativeIndices ==
    /\ call.fn = "mergeNarrativeIndices"
    /\ ~call.done
    /\ Returns(mergeNarrativeIndices(call.arg))

MergeInit == PureInit({ Pending("mergeNarrativeIndices", a) : a \in MergeInputs })
MergeNext == Call_mergeNarrativeIndices
MergeSpec == MergeInit /\ [][MergeNext]_vars


\* A line of report text by what the heading patterns look at: the number of
\* '#' it starts with, whether white space follows them, and the rest of the
\* line; people are the matches of the person pattern in it.
TextLine(hashes, gap, text, people) ==
    [hashes |-> hashes, gap |-> gap, text |-> text, people |-> people]

\* line.match(/^##\s+(.+)$/) and line.match(/^###\s+(.+)$/): exactly two
\* (three) '#', then white space, then at least one more character.
h2Match(line) == line.hashes = 2 /\ line.gap /\ line.text # ""
h3Match(line) == line.hashes = 3 /\ line.gap /\ line.text # ""

\* What the pass sees of a line; the captured title is the rest, trimmed.
Matched(line) ==
    Line(IF h2Match(line) THEN 2 ELSE IF h3Match(line) THEN 3 ELSE 0,
         IF h2Match(line) \/ h3Match(line) THEN line.text ELSE "",
         line.people, <<>>, <<>>)

TextLines ==
    { TextLine(2, TRUE, "Summary", <<>>),        \* '## Summary'
      TextLine(2, TRUE, "Findings", <<>>),       \* '## Findings'
      TextLine(3, TRUE, "Detail", <<>>),         \* '### Detail'
      TextLine(4, TRUE, "Deep", <<>>),           \* '#### Deep'
      TextLine(2, FALSE, "Tight", <<>>),         \* '##Tight'
      TextLine(2, TRUE, "", <<>>),               \* '## '
      TextLine(0, FALSE, "by **Jane Doe**", << "Jane Doe" >>) }

ExtractInputs == SeqsUpTo(TextLines, MaxLines)

\* extractNarrativeIndex(content)
Call_extractNarrativeIndex ==
    /\ call.fn = "extractNarrativeIndex"
    /\ ~call.done
    /\ Returns(extractNarrativeIndex(
                  [id |-> "text", lines |-> [i \in DOMAIN call.arg |-> Matched(call.arg[i])]]))

ExtractInit == PureInit({ Pending("extractNarrativeIndex", a) : a \in ExtractInputs })
ExtractNext == Call_extractNarrativeIndex
ExtractSpec == ExtractInit /\ [][ExtractNext]_vars


\* ------------------------------------------------- offline forensics engine
\* An evidence descriptor is a record with name and size and, when present,
\* type, lastModified and hash.  lastModified counts half hours; a property
\* that is absent reads as undefined.
Has(f, k) == k \in DOMAIN f

\* new Date(x).toLocaleString(), 'Invalid Date' for new Date(undefined).
toLocaleString(f) ==
    IF Has(f, "lastModified") THEN "local(" \o ToString(f.lastModified) \o ")"
    ELSE "Invalid Date"

\* new Date().toISOString() of the generation time.
toISOString(t) == "iso(" \o ToString(t) \o ")"

\* `${f.hash}` and `${f.type || fallback}` in a template literal.
HashText(f) == IF Has(f, "hash") THEN f.hash ELSE "undefined"
TypeOr(f, fallback) == IF Has(f, "type") /\ f.type # "" THEN f.type ELSE fallback

\* (n / d).toFixed(2): n / d to two decimals, a tie rounded up.
toFixed2(n, d) ==
    LET h == (n \div d) * 100 + (200 * (n % d) + d) \div (2 * d)
        c == h % 100
    IN ToString(h \div 100) \o "." \o (IF c < 10 THEN "0" ELSE "") \o ToString(c)

\* f.hash.substring(0, 16): the first 16 characters of the digest.
substring16(h) == "first16(" \o h \o ")"

\* The comparator of the timeline sort, a.getTime() - b.getTime() > 0; the
\* difference is NaN, hence not positive, when a date is invalid.
After_(a, b) ==
    Has(a, "lastModified") /\ Has(b, "lastModified") /\ a.lastModified > b.lastModified

\* An insertion that puts f before the entries of equal date.
RECURSIVE InsertByLastModified_Unstable(_, _)
InsertByLastModified_Unstable(sorted, f) ==
    IF sorted = <<>> THEN << f >>
    ELSE IF ~After_(f, Head(sorted))
         THEN << f >> \o sorted
         ELSE << Head(sorted) >> \o InsertByLastModified_Unstable(Tail(sorted), f)

RECURSIVE InsertByLastModified(_, _)
InsertByLastModified(sorted, f) ==
    IF sorted = <<>> THEN << f >>
    ELSE IF After_(Head(sorted), f)
         THEN << f >> \o sorted
         ELSE << Head(sorted) >> \o InsertByLastModified(Tail(sorted), f)

\* [...localForensics].sort(...): a stable sort of a copy.
RECURSIVE SortByLastModified(_)
SortByLastModified(lf) ==
    IF lf = <<>> THEN <<>>
    ELSE InsertByLastModified(SortByLastModified(SubSeq(lf, 1, Len(lf) - 1)), lf[Len(lf)])

\* The comparator is consistent when every date is valid, or when no two
\* valid dates differ (an invalid date compares equal, NaN, to everything).
ConsistentComparator(lf) ==
    \/ \A i \in DOMAIN lf : Has(lf[i], "lastModified")
    \/ \A i, j \in DOMAIN lf :
          Has(lf[i], "lastModified") /\ Has(lf[j], "lastModified")
          => lf[i].lastModified = lf[j].lastModified

\* What Array.prototype.sort may leave: the stable order under a consistent
\* comparator, an implementation-defined order of the elements otherwise.
SortOutcomes(lf) ==
    IF ConsistentComparator(lf)
    THEN { SortByLastModified(lf) }
    ELSE { [i \in DOMAIN lf |-> lf[pi[i]]] : pi \in Permutations(DOMAIN lf) }

\* [...localForensics]: the sort works on a copy, the array handed in keeps
\* its order.
ArrayAfterSort(lf, sortedFiles) == lf

\* The report is the pushed strings joined by a newline, held here as its
\* lines: a pushed string ending in a newline is followed by an empty line.
\* The fixed prose of a paragraph is cut to its first words, and the backquotes
\* around a digest are written as quotes.
ReportHeader(fs, timestamp) ==
    << "# OFFLINE FORENSIC ANALYSIS REPORT",
       "**Generated:** " \o timestamp,
       "**Mode:** Offline Rule-Based Analysis (No AI)",
       "**Files Analyzed:** " \o ToString(Len(fs)), "",
       "## 1. Executive Summary", "",
       "This report was generated using local rule-based forensic analysis", "" >>

Timeline(sortedFiles) ==
    << "## 2. Timeline of Events", "" >>
    \o [i \in DOMAIN sortedFiles |->
           "- **" \o toLocaleString(sortedFiles[i]) \o "**: File \"" \o sortedFiles[i].name
           \o "\" created/modified"]
    \o << "" >>

IntegrityBlock(f) ==
    << "### " \o f.name,
       "- **SHA-256 Hash:** '" \o HashText(f) \o "'",
       "- **File Size:** " \o toFixed2(f.size, 1024) \o " KB",
       "- **Type:** " \o TypeOr(f, "Unknown"),
       "- **Last Modified:** " \o toLocaleString(f),
       "- **Integrity Status:** Hash calculated and sealed", "" >>

\* The section without its heading when there is no descriptor.
IntegrityAnalysis_SkipEmpty(lf) ==
    IF lf = <<>> THEN <<>>
    ELSE << "## 3. File Integrity Analysis (Brain B2)", "",
            "**Chain Integrity Verification:**", "" >>
         \o Flatten([i \in DOMAIN lf |-> IntegrityBlock(lf[i])])

IntegrityAnalysis(lf) ==
    << "## 3. File Integrity Analysis (Brain B2)", "",
       "**Chain Integrity Verification:**", "" >>
    \o Flatten([i \in DOMAIN lf |-> IntegrityBlock(lf[i])])

\* The large-file test with the boundary included.
IssuesOf_AtLeast(f) ==
    (IF ~Has(f, "type") \/ f.type = ""
     THEN << "- **" \o f.name \o "**: Missing MIME type information" >> ELSE <<>>)
    \o (IF f.size = 0
        THEN << "- **" \o f.name \o "**: WARNING - File is empty (0 bytes)" >> ELSE <<>>)
    \o (IF f.size >= 50 * 1024 * 1024
        THEN << "- **" \o f.name \o "**: Large file ("
                \o toFixed2(f.size, 1024 * 1024) \o " MB) - may indicate data dump" >>
        ELSE <<>>)

\* The metadataIssues one descriptor adds.
IssuesOf(f) ==
    (IF ~Has(f, "type") \/ f.type = ""
     THEN << "- **" \o f.name \o "**: Missing MIME type information" >> ELSE <<>>)
    \o (IF f.size = 0
        THEN << "- **" \o f.name \o "**: WARNING - File is empty (0 bytes)" >> ELSE <<>>)
    \o (IF f.size > 50 * 1024 * 1024
        THEN << "- **" \o f.name \o "**: Large file ("
                \o toFixed2(f.size, 1024 * 1024) \o " MB) - may indicate data dump" >>
        ELSE <<>>)

MetadataAnalysis(lf) ==
    LET metadataIssues == Flatten([i \in DOMAIN lf |-> IssuesOf(lf[i])])
    IN << "## 4. Metadata Analysis (Brain B3)", "" >>
       \o (IF Len(metadataIssues) > 0
           THEN << "**Metadata Anomalies Detected:**", "" >> \o metadataIssues
           ELSE << "All files have complete metadata. No anomalies detected." >>)
       \o << "" >>

\* fileTypes: the reduce into an object, as (type, count) pairs in the order
\* the keys were first set (the order Object.entries lists string keys).
RECURSIVE CountTypes(_, _)
CountTypes(lf, acc) ==
    IF lf = <<>> THEN acc
    ELSE LET type == TypeOr(Head(lf), "unknown")
         IN IF \E i \in DOMAIN acc : acc[i][1] = type
            THEN CountTypes(Tail(lf),
                            [i \in DOMAIN acc |->
                               IF acc[i][1] = type THEN << type, acc[i][2] + 1 >> ELSE acc[i]])
            ELSE CountTypes(Tail(lf), Append(acc, << type, 1 >>))

\* The gap cut to whole hours, Math.floor in place of Math.round.
TimeGaps_Floor(sortedFiles) ==
    LET gap(i) == sortedFiles[i + 1].lastModified - sortedFiles[i].lastModified
        line(i) ==
            IF Has(sortedFiles[i], "lastModified") /\ Has(sortedFiles[i + 1], "lastModified")
               /\ gap(i) > 48
            THEN << "- Gap of " \o ToString(gap(i) \div 2) \o " hours between \""
                    \o sortedFiles[i].name \o "\" and \"" \o sortedFiles[i + 1].name \o "\"" >>
            ELSE <<>>
    IN Flatten([i \in 1..(Len(sortedFiles) - 1) |-> line(i)])

\* diffHours > 24 and Math.round(diffHours), in half hours.
TimeGaps(sortedFiles) ==
    LET gap(i) == sortedFiles[i + 1].lastModified - sortedFiles[i].lastModified
        line(i) ==
            IF Has(sortedFiles[i], "lastModified") /\ Has(sortedFiles[i + 1], "lastModified")
               /\ gap(i) > 48
            THEN << "- Gap of " \o ToString((gap(i) + 1) \div 2) \o " hours between \""
                    \o sortedFiles[i].name \o "\" and \"" \o sortedFiles[i + 1].name \o "\"" >>
            ELSE <<>>
    IN Flatten([i \in 1..(Len(sortedFiles) - 1) |-> line(i)])

PatternAnalysis(lf, sortedFiles) ==
    LET fileTypes == CountTypes(lf, <<>>)
        timeGaps == TimeGaps(sortedFiles)
    IN << "## 5. Pattern Analysis", "", "**File Type Distribution:**", "" >>
       \o [i \in DOMAIN fileTypes |->
              "- " \o fileTypes[i][1] \o ": " \o ToString(fileTypes[i][2]) \o " file(s)"]
       \o << "" >>
       \o (IF Len(timeGaps) > 0
           THEN << "**Temporal Anomalies:**", "" >> \o timeGaps \o << "" >>
           ELSE <<>>)

\* f.hash.substring on a descriptor without hash is a TypeError.
BreakdownThrows(lf) ==
    \E i \in DOMAIN lf : ~Has(lf[i], "hash")

EvidenceBreakdown(lf) ==
    << "## 6. Evidence Breakdown", "" >>
    \o Flatten([i \in DOMAIN lf |->
          << "### Evidence " \o ToString(i) \o ": " \o lf[i].name,
             "- **Purpose:** Document evidence file with cryptographic seal",
             "- **Verification:** Hash " \o substring16(HashText(lf[i]))
             \o "... can be used to verify file integrity",
             "- **Forensic Value:** Timestamped and sealed for chain of custody", "" >>])

Recommendations(timestamp) ==
    << "## 7. Strategic Recommendations", "",
       "### Offline Analysis Limitations", "",
       "This offline analysis provides:", "",
       "**Connect to the internet and re-run the analysis**", "",
       "### Evidence Preservation", "",
       "**Critical Actions:**", "",
       "1. **Maintain Hash Records:** Store all SHA-256 hashes for later verification",
       "2. **Timestamp Documentation:** Record current date/time: " \o timestamp,
       "5. **Secure Storage:** Store originals in tamper-proof location", "" >>

Conclusion(fs, lf, timestamp) ==
    << "## 8. Conclusion", "",
       "Offline forensic analysis completed successfully. " \o ToString(Len(fs))
       \o " file(s) analyzed with cryptographic sealing applied.",
       "", "**Cryptographic Seal Summary:**" >>
    \o [i \in DOMAIN lf |->
           "- " \o lf[i].name \o ": '" \o HashText(lf[i]) \o "'"]
    \o << "", "---", "**Report Generated:** " \o timestamp,
          "**Analysis Mode:** Offline Rule-Based Forensics", "**Status:** Complete" >>

\* runOfflineForensics(files, localForensics) with sortedFiles as the sort
\* left it: the promise rejects (threw) or resolves with the report;
\* localForensics is the array handed in as it is after the call.
runOfflineForensics(fs, lf, sortedFiles, now) ==
    LET timestamp == toISOString(now)
    IN IF BreakdownThrows(lf)
       THEN [threw |-> TRUE, report |-> <<>>,
             localForensics |-> ArrayAfterSort(lf, sortedFiles)]
       ELSE [threw |-> FALSE,
             localForensics |-> ArrayAfterSort(lf, sortedFiles),
             report |-> ReportHeader(fs, timestamp)
                        \o Timeline(sortedFiles)
                        \o IntegrityAnalysis(lf)
                        \o MetadataAnalysis(lf)
                        \o PatternAnalysis(lf, sortedFiles)
                        \o EvidenceBreakdown(lf)
                        \o Recommendations(timestamp)
                        \o Conclusion(fs, lf, timestamp)]

\* Descriptors given to the engine: a plain one, an empty file without type
\* 30 hours later, files at and just over 50 MiB without type or date, and
\* one without digest.
Descriptors ==
    { [name |-> "a.pdf", type |-> "application/pdf", size |-> 1024,
       lastModified |-> 0, hash |-> "sha256(b1b2)"],
      [name |-> "b.txt", type |-> "", size |-> 0,
       lastModified |-> 60, hash |-> "sha256()"],
      [name |-> "c.bin", size |-> 52428801,
       lastModified |-> 2, hash |-> "sha256(b5)"],
      [name |-> "d.bin", type |-> "application/octet-stream", size |-> 52428800,
       hash |-> "sha256(b6)"],
      [name |-> "e.doc", type |-> "application/msword", size |-> 10,
       lastModified |-> 0],
      [name |-> "f.log", type |-> "text/plain", size |-> 5,
       lastModified |-> 48, hash |-> "sha256(b7)"],
      [name |-> "g.log", type |-> "text/plain", size |-> 5,
       lastModified |-> 109, hash |-> "sha256(b8)"],
      [name |-> "h.log", type |-> "text/plain", size |-> 5,
       lastModified |-> 60, hash |-> "sha256(b9)"] }

OfflineInputs ==
    { [files |-> fs, localForensics |-> lf] :
        fs \in SeqsUpTo(Files, MaxDesc), lf \in SeqsUpTo(Descriptors, MaxDesc) }

Call_runOfflineForensics ==
    /\ call.fn = "runOfflineForensics"
    /\ ~call.done
    /\ \E sortedFiles \in SortOutcomes(call.arg.localForensics) :
          Returns(runOfflineForensics(call.arg.files, call.arg.localForensics,
                                      sortedFiles, clock))

OfflineInit == PureInit({ Pending("runOfflineForensics", a) : a \in OfflineInputs })
OfflineNext == Call_runOfflineForensics
OfflineSpec == OfflineInit /\ [][OfflineNext]_vars


\* ------------------------------------------- the file list, hashed anew
\* A File whose bytes cannot be read any more (moved or deleted after it was
\* picked): file.arrayBuffer() rejects and so does calculateSHA256.
Unreadable ==
    [name |-> "c.png", type |-> "image/png", size |-> 3, lastModified |-> 2,
     bytes |-> "b5", unreadable |-> TRUE]

Readable(f) == ~Has(f, "unreadable")

DroppedFiles == Files \cup { Unreadable }

Without(fs, i) == SubSeq(fs, 1, i - 1) \o SubSeq(fs, i + 1, Len(fs))

\* setFiles(...) and the effect on [files] up to its first await: with an
\* empty list localForensics is cleared at once, otherwise a run starts that
\* hashes the list as it is now.  Runs already in flight are not cancelled.
setFiles(p, fs) ==
    /\ files' = [files EXCEPT ![p] = fs]
    /\ IF fs = <<>>
       THEN /\ localForensics' = [localForensics EXCEPT ![p] = <<>>]
            /\ UNCHANGED runs
       ELSE /\ runs' = [runs EXCEPT ![p] = Append(@, fs)]
            /\ UNCHANGED localForensics

\* handleDrop: the dropped file is appended; the drop zone is never disabled.
handleDrop(p, f) ==
    /\ view[p] = "analysis"
    /\ Len(files[p]) < MaxForm
    /\ Len(runs[p]) < MaxRuns
    /\ setFiles(p, Append(files[p], f))
    /\ errorInfo' = [errorInfo EXCEPT ![p] = "none"]
    /\ DropExport
    /\ UNCHANGED << syncAvailable, env, result, call, stores, replica, submits, clock,
                    faults, view, caseId, pc, cur, wr, hist >>

\* removeFile(indexToRemove), its button disabled while loading.
removeFile(p, indexToRemove) ==
    /\ view[p] = "analysis"
    /\ ~loading(p)
    /\ indexToRemove \in DOMAIN files[p]
    /\ Len(runs[p]) < MaxRuns
    /\ setFiles(p, Without(files[p], indexToRemove))
    /\ DropExport
    /\ UNCHANGED << syncAvailable, env, result, call, stores, replica, submits, clock,
                    faults, view, caseId, errorInfo, pc, cur, wr, hist >>

\* A run of runLocalForensics settles, in any order among those in flight:
\* Promise.all resolves and setLocalForensics(analysis) runs, or one
\* calculateSHA256 rejects, Promise.all rejects with it and the catch logs.
runLocalForensics(p, r) ==
    /\ r \in DOMAIN runs[p]
    /\ localForensics' =
          IF \A i \in DOMAIN runs[p][r] : Readable(runs[p][r][i])
          THEN [localForensics EXCEPT ![p] = Analysis(runs[p][r])]
          ELSE localForensics
    /\ runs' = [runs EXCEPT ![p] = Without(@, r)]
    /\ DropExport
    /\ UNCHANGED << syncAvailable, env, result, call, stores, replica, submits, clock,
                    faults, view, caseId, files, errorInfo, pc, cur, wr, hist >>

\* One App instance on the analysis view, nothing picked yet.
HashInit ==
    /\ syncAvailable = FALSE
    /\ reportsStore = <<>>
    /\ evidenceStore = <<>>
    /\ metaStore = <<>>
    /\ replica = <<>>
    /\ exportData = NoExport
    /\ submits = 0
    /\ clock = 0
    /\ faults = 0
    /\ view = [p \in Tabs |-> IF p \in Solo THEN "analysis" ELSE "welcome"]
    /\ caseId = [p \in Tabs |-> ""]
    /\ files = [p \in Tabs |-> <<>>]
    /\ localForensics = [p \in Tabs |-> <<>>]
    /\ errorInfo = [p \in Tabs |-> "none"]
    /\ pc = [p \in Tabs |-> "idle"]
    /\ cur = [p \in Tabs |-> NoCur]
    /\ wr = [p \in Tabs |-> NoWrite]
    /\ hist = [p \in Tabs |-> NoHist]
    /\ call = NoCall
    /\ Keyed

HashNext ==
    \/ \E p \in Solo, f \in DroppedFiles : handleDrop(p, f)
    \/ \E p \in Solo, i \in 1..MaxForm : removeFile(p, i)
    \/ \E p \in Solo, r \in 1..MaxRuns : runLocalForensics(p, r)

HashSpec == HashInit /\ [][HashNext]_vars


\* ------------------------- handleSubmit without the reasoning service
\* findings.join('\n')
RECURSIVE JoinLines(_)
JoinLines(lines) ==
    IF lines = <<>> THEN ""
    ELSE IF Len(lines) = 1 THEN lines[1]
         ELSE LET half == Len(lines) \div 2
              IN JoinLines(SubSeq(lines, 1, half)) \o "\n"
                 \o JoinLines(SubSeq(lines, half + 1, Len(lines)))

\* The titles of the headings an offline report carries: the eight sections,
\* and under them one heading per integrity block, one per evidence
\* breakdown and the two of the recommendations.
H2Titles ==
    { "1. Executive Summary", "2. Timeline of Events",
      "3. File Integrity Analysis (Brain B2)", "4. Metadata Analysis (Brain B3)",
      "5. Pattern Analysis", "6. Evidence Breakdown",
      "7. Strategic Recommendations", "8. Conclusion" }

H3Titles(lf) ==
    { lf[i].name : i \in DOMAIN lf }
    \cup { "Evidence " \o ToString(i) \o ": " \o lf[i].name : i \in DOMAIN lf }
    \cup { "Offline Analysis Limitations", "Evidence Preservation" }

\* The lines that print the ISO timestamp, and the YYYY-MM-DD it starts with.
DatedPrefixes ==
    { "**Generated:** ",
      "2. **Timestamp Documentation:** Record current date/time: ",
      "**Report Generated:** " }

isoDate(timestamp) == "date(" \o timestamp \o ")"

\* A line of an offline report as the patterns of extractNarrativeIndex see
\* it.  No line of the report matches the person or the amount pattern, and
\* the dates of the timeline are printed by toLocaleString (en-US: m/d/yyyy).
ReportLine(s, lf, timestamp) ==
    LET h2 == { t \in H2Titles : s = "## " \o t }
        h3 == { t \in H3Titles(lf) : s = "### " \o t }
    IN Line(IF h2 # {} THEN 2 ELSE IF h3 # {} THEN 3 ELSE 0,
            IF h2 # {} THEN CHOOSE t \in h2 : TRUE
            ELSE IF h3 # {} THEN CHOOSE t \in h3 : TRUE ELSE "",
            <<>>,
            IF \E pre \in DatedPrefixes : s = pre \o timestamp
            THEN << isoDate(timestamp) >> ELSE <<>>,
            <<>>)

\* handleSubmit with files when isOffline || !GEMINI_API_KEY: the report of
\* runOfflineForensics is shown and, with a case reference, stored like a
\* report of the reasoning service.  A rejection of runOfflineForensics
\* (TypeError 'Cannot read properties of undefined') ends in the catch.
handleSubmit_offline(p) ==
    /\ CanSubmit(p)
    /\ files[p] # <<>>
    /\ OfflineMode(p)
    /\ submits < MaxSubmits
    /\ submits' = submits + 1
    /\ clock' = clock + 1
    /\ \E sortedFiles \in SortOutcomes(localForensics[p]) :
         LET out == runOfflineForensics(files[p], localForensics[p], sortedFiles, clock')
             c == trim(caseId[p])
             text == JoinLines(out.report)
         IN IF out.threw
            THEN /\ result' = [result EXCEPT ![p] = <<>>]
                 /\ errorInfo' = [errorInfo EXCEPT ![p] = "FILE_IO"]
                 /\ UNCHANGED << view, pc, cur, wr, hist >>
            ELSE /\ result' = [result EXCEPT ![p] = out.report]
                 /\ errorInfo' = [errorInfo EXCEPT ![p] = "none"]
                 /\ IF c = ""
                    THEN /\ view' = [view EXCEPT ![p] = "report"]
                         /\ hist' = [hist EXCEPT ![p] = [NoHist EXCEPT !.wentToReport = TRUE]]
                         /\ cur' = [cur EXCEPT ![p] = NoCur]
                         /\ wr' = [wr EXCEPT ![p] = NoWrite]
                         /\ UNCHANGED pc
                    ELSE /\ pc' = [pc EXCEPT ![p] = "local"]
                         /\ cur' = [cur EXCEPT ![p] =
                                [caseId |-> c, op |-> "report", mode |-> "offline",
                                 content |-> text,
                                 narrativeIndex |-> extractNarrativeIndex(
                                     [id |-> text,
                                      lines |-> [i \in DOMAIN out.report |->
                                          ReportLine(out.report[i], localForensics[p],
                                                     toISOString(clock'))]]),
                                 reportHash |-> calculateSHA256(text),
                                 fileHashes |-> [i \in DOMAIN files[p] |->
                                     FindHash(localForensics[p], files[p][i].name)],
                                 meta |-> NoMeta, idx |-> 0]]
                         /\ wr' = [wr EXCEPT ![p] = NoWrite]
                         /\ hist' = [q \in Tabs |->
                                IF q = p
                                THEN [NoHist EXCEPT !.disturbed =
                                         \E r \in Tabs \ {p} : Busy(r, c)]
                                ELSE IF cur[q].caseId = c
                                     THEN [hist[q] EXCEPT !.disturbed = TRUE]
                                     ELSE hist[q]]
                         /\ UNCHANGED view
    /\ DropExport
    /\ UNCHANGED << syncAvailable, env, runs, call, stores, replica, faults,
                    caseId, files, localForensics >>

\* handleSubmit with files and a key when the call of the reasoning service
\* rejects with a network error ('Failed to fetch'): setResult('') was done,
\* the catch shows diagnoseError(err) and finally clears loading.
handleSubmit_failed(p) ==
    /\ CanSubmit(p)
    /\ files[p] # <<>>
    /\ ~OfflineMode(p)
    /\ errorInfo[p] # "NET_ERR" \/ result[p] # <<>>
    /\ result' = [result EXCEPT ![p] = <<>>]
    /\ errorInfo' = [errorInfo EXCEPT ![p] = "NET_ERR"]
    /\ DropExport
    /\ UNCHANGED << syncAvailable, env, runs, call, stores, replica, submits, clock, faults,
                    view, caseId, files, localForensics, pc, cur, wr, hist >>

\* The listeners of the window events 'online' and 'offline'.
handleOnline(p) ==
    /\ isOffline[p]
    /\ isOffline' = [isOffline EXCEPT ![p] = FALSE]
    /\ UNCHANGED << syncAvailable, GEMINI_API_KEY, runs, result, call, stores, replica,
                    exportData, submits, clock, faults, ui, pc, cur, wr, hist >>

handleOffline(p) ==
    /\ ~isOffline[p]
    /\ isOffline' = [isOffline EXCEPT ![p] = TRUE]
    /\ UNCHANGED << syncAvailable, GEMINI_API_KEY, runs, result, call, stores, replica,
                    exportData, submits, clock, faults, ui, pc, cur, wr, hist >>

\* One App instance on the analysis view of a build with or without a key,
\* in a browser that starts online or offline; without a key the mount effect
\* has shown CONFIG_MISSING.  No replica is configured.
SubmitInit ==
    /\ syncAvailable = FALSE
    /\ reportsStore = <<>>
    /\ evidenceStore = <<>>
    /\ metaStore = <<>>
    /\ replica = <<>>
    /\ exportData = NoExport
    /\ submits = 0
    /\ clock = 0
    /\ faults = 0
    /\ view = [p \in Tabs |-> IF p \in Solo THEN "analysis" ELSE "welcome"]
    /\ \E c \in { "", "A" } : caseId = [p \in Tabs |-> IF p \in Solo THEN c ELSE ""]
    /\ files = [p \in Tabs |-> <<>>]
    /\ localForensics = [p \in Tabs |-> <<>>]
    /\ GEMINI_API_KEY \in { "", "key" }
    /\ errorInfo = [p \in Tabs |->
          IF p \in Solo /\ GEMINI_API_KEY = "" THEN "CONFIG_MISSING" ELSE "none"]
    /\ \E off \in BOOLEAN : isOffline = [p \in Tabs |-> p \in Solo /\ off]
    /\ runs = [p \in Tabs |-> <<>>]
    /\ result = [p \in Tabs |-> <<>>]
    /\ pc = [p \in Tabs |-> "idle"]
    /\ cur = [p \in Tabs |-> NoCur]
    /\ wr = [p \in Tabs |-> NoWrite]
    /\ hist = [p \in Tabs |-> NoHist]
    /\ call = NoCall

\* The steps a running handleSubmit or hashing run takes by itself.
SubmitSteps ==
    \/ \E p \in Solo, r \in 1..MaxRuns : runLocalForensics(p, r)
    \/ \E p \in Solo : LocalWrite(p)
    \/ \E p \in Solo : GetReports(p)
    \/ \E p \in Solo : FinishSubmit(p)

\* The operator adds files while no analysis is running, and stays on the
\* report once it is shown.
SubmitNext ==
    \/ \E p \in Solo, f \in Files : ~loading(p) /\ handleDrop(p, f)
    \/ \E p \in Solo : handleSubmit(p)
    \/ \E p \in Solo : handleSubmit_offline(p)
    \/ \E p \in Solo : handleSubmit_failed(p)
    \/ \E p \in Solo : handleOnline(p)
    \/ \E p \in Solo : handleOffline(p)
    \/ SubmitSteps

SubmitSpec == SubmitInit /\ [][SubmitNext]_vars

\* Promises settle and a running handler continues; the operator and the
\* network owe nothing.
SubmitFair == SubmitSpec /\ WF_vars(SubmitSteps)


\* ================================================================ claims
ReportCount(c) == Cardinality({ i \in DOMAIN reportsStore : reportsStore[i].caseId = c })
EvidenceCount(c) == Cardinality({ i \in DOMAIN evidenceStore : evidenceStore[i].caseId = c })

\* C1: in every StorageManager write a replication call is made only after
\* the LocalStore write has completed successfully; a failed LocalStore write
\* rejects the whole write without any replication call; and without a
\* configured replica no replication call is ever made.
C1_LocalBeforeReplica ==
    \A p \in Tabs :
        /\ wr[p].syncCalls > 0 => wr[p].local = "ok"
        /\ wr[p].local = "failed" => wr[p].result = "rejected" /\ wr[p].syncCalls = 0
        /\ ~syncAvailable => wr[p].syncCalls = 0 /\ replica = <<>>

\* A LocalStore write has failed although a replica is configured.
C1_Witness ==
    \E p \in Tabs : syncAvailable /\ wr[p].local = "failed" /\ wr[p].result = "rejected"

\* The record a finished write put into LocalStore is there.
RecordHeld(p) ==
    LET w == wr[p] IN
    CASE w.op = "report" ->
            /\ w.at \in DOMAIN reportsStore
            /\ reportsStore[w.at].caseId = w.caseId
            /\ \A k \in DOMAIN w.doc : reportsStore[w.at][k] = w.doc[k]
      [] w.op = "evidence" ->
            /\ w.at \in DOMAIN evidenceStore
            /\ evidenceStore[w.at].caseId = w.caseId
            /\ \A k \in DOMAIN w.doc \ {"note"} : evidenceStore[w.at][k] = w.doc[k]
      [] OTHER ->
            /\ w.caseId \in DOMAIN metaStore
            /\ \A k \in DOMAIN w.doc : metaStore[w.caseId][k] = w.doc[k]

\* C2: a write whose LocalStore write succeeded resolves and its record is
\* in LocalStore whether setDoc succeeded or threw, and the replica was
\* called exactly once.
C2_ReplicationIsolated ==
    \A p \in Tabs :
        wr[p].local = "ok" /\ wr[p].setDoc \in {"ok", "error"}
        => /\ wr[p].result = "resolved"
           /\ wr[p].syncCalls = 1
           /\ RecordHeld(p)

\* A write has finished after its replica call threw.
C2_Witness ==
    \E p \in Tabs : wr[p].local = "ok" /\ wr[p].setDoc = "error" /\ wr[p].result = "resolved"

\* C3: replication never blocks the local write path: a write whose replica
\* call never completes has returned to its caller.
C3_ReplicaNeverBlocks ==
    \A p \in Tabs : wr[p].setDoc = "stalled" => wr[p].result = "resolved"

\* C4: a LocalStore failure while saving the report or an evidence file is
\* surfaced: handleSubmit does not go on to the 'report' view.
C4_StoreFailureSurfaced ==
    \A p \in Tabs : hist[p].storeError => ~hist[p].wentToReport

\* C5: with same-case operations serialized, after a successful report save
\* the aggregate's reportCount is the number of Reports stored for the case.
C5_ReportCountExact ==
    \A p \in Tabs :
        hist[p].reportSaved /\ ~hist[p].disturbed
        => /\ cur[p].caseId \in DOMAIN metaStore
           /\ metaStore[cur[p].caseId].reportCount = ReportCount(cur[p].caseId)

\* A second report has been saved to a case after the first save had finished.
C5_Witness ==
    \E p \in Tabs :
        /\ hist[p].reportSaved /\ ~hist[p].disturbed
        /\ ReportCount(cur[p].caseId) = 2

\* C6: at every recomputation of a Case aggregate evidenceCount is the number
\* of EvidenceFile records stored for the case at that moment.
C6_EvidenceCountExact ==
    \A p \in Tabs :
        wr[p].op = "meta" /\ wr[p].local = "ok" /\ ~hist[p].disturbed
        => metaStore[wr[p].caseId].evidenceCount = EvidenceCount(wr[p].caseId)

Keys(index) == { DedupKey(index[i]) : i \in DOMAIN index }

\* C7: once all interleaved report saves of a case have completed, the
\* aggregate's reportCount is the number of stored Reports and its
\* narrativeIndex covers every stored Report.
C7_NoLostUpdate ==
    (faults = 0 /\ \A p \in Tabs : pc[p] = "idle" /\ hist[p].reportSaved)
    => \A c \in DOMAIN metaStore :
          /\ metaStore[c].reportCount = ReportCount(c)
          /\ \A i \in DOMAIN reportsStore :
                reportsStore[i].caseId = c
                => Keys(reportsStore[i].narrativeIndex) \subseteq Keys(metaStore[c].narrativeIndex)

EvidenceDocFields == {"fileName", "fileType", "fileSize", "fileHash", "metadata", "note"}

\* C8: no payload handed to the replica and no replica document carries
\* binaryData; an evidence document has the descriptive fields only, and the
\* bytes are in the LocalStore record.
C8_NoBinaryToReplica ==
    /\ \A p \in Tabs :
          /\ "binaryData" \notin DOMAIN wr[p].doc
          /\ wr[p].op = "evidence" /\ wr[p].syncCalls > 0
             => /\ DOMAIN wr[p].doc = EvidenceDocFields
                /\ evidenceStore[wr[p].at].binaryData \in AllBytes
    /\ \A path \in DOMAIN replica :
          /\ "binaryData" \notin DOMAIN replica[path]
          /\ Len(path) = 4 /\ path[3] = "evidence"
             => DOMAIN replica[path] = EvidenceDocFields

\* An evidence document has been written to the replica.
C8_Witness ==
    \E path \in DOMAIN replica :
        /\ Len(path) = 4 /\ path[3] = "evidence"
        /\ \E i \in DOMAIN evidenceStore : evidenceStore[i].fileHash = replica[path].fileHash

\* C9: every evidence entry of an export has the placeholder built from the
\* byte count as binaryData, never the bytes.
C9_ExportRedacted ==
    exportData.taken
    => \A c \in DOMAIN exportData.cases :
          \A i \in DOMAIN exportData.cases[c].evidence :
             LET e == exportData.cases[c].evidence[i] IN
             /\ e.binaryData \notin AllBytes
             /\ e.binaryData = "<BINARY " \o ToString(e.fileSize) \o " bytes>"

\* An export holds an evidence entry.
C9_Witness ==
    /\ exportData.taken
    /\ \E c \in DOMAIN exportData.cases : exportData.cases[c].evidence # <<>>

InSeq(x, seq) == \E i \in DOMAIN seq : seq[i] = x

\* C10: every Report and every EvidenceFile record of LocalStore appears in
\* the export (the evidence with its binary replaced).
C10_ExportComplete ==
    exportData.taken
    => /\ \A i \in DOMAIN reportsStore :
             /\ reportsStore[i].caseId \in DOMAIN exportData.cases
             /\ InSeq(reportsStore[i], exportData.cases[reportsStore[i].caseId].reports)
       /\ \A i \in DOMAIN evidenceStore :
             /\ evidenceStore[i].caseId \in DOMAIN exportData.cases
             /\ \E j \in DOMAIN exportData.cases[evidenceStore[i].caseId].evidence :
                   LET e == exportData.cases[evidenceStore[i].caseId].evidence[j] IN
                   \A k \in DOMAIN e \ {"binaryData"} : e[k] = evidenceStore[i][k]

Sorted(rs) == \A i, j \in DOMAIN rs : i < j => rs[i].timestamp <= rs[j].timestamp

\* C11: getReports(caseId) returns exactly the Reports stored for that caseId,
\* each once, in non-decreasing timestamp order, whatever the order in which
\* they were inserted.
C11_GetReportsOrdered ==
    call.fn = "getReports"
    => /\ Sorted(call.ret)
       /\ Len(call.ret) = ReportCount(call.caseId)
       /\ \A i \in DOMAIN reportsStore :
             reportsStore[i].caseId = call.caseId => InSeq(reportsStore[i], call.ret)
       /\ \A j \in DOMAIN call.ret : call.ret[j].caseId = call.caseId

\* getReports has read a case whose reports were inserted against the order
\* of their timestamps, beside a report of another case.
C11_Witness ==
    /\ call.fn = "getReports"
    /\ \E i, j \in DOMAIN reportsStore :
          /\ i < j
          /\ reportsStore[i].caseId = call.caseId
          /\ reportsStore[j].caseId = call.caseId
          /\ reportsStore[i].timestamp > reportsStore[j].timestamp

\* The dedup key of an IndexEntry as the data model states it:
\* (kind, subtype-or-level, value-or-title).
KeyTriple(item) ==
    << item.type,
       IF item.subtype # "" THEN item.subtype ELSE ToString(item.level),
       IF item.value # "" THEN item.value ELSE item.title >>

NoTwoSameKey(index) ==
    \A i, j \in DOMAIN index : i # j => KeyTriple(index[i]) # KeyTriple(index[j])

\* C12: in every reachable state the narrativeIndex stored on a Case aggregate
\* holds no two entries with the same dedup key.
C12_IndexDeduplicated ==
    \A c \in DOMAIN metaStore : NoTwoSameKey(metaStore[c].narrativeIndex)

\* An aggregate has been recomputed over two reports that share an entry key.
C12_Witness ==
    \E c \in DOMAIN metaStore :
        /\ metaStore[c].reportCount = 2
        /\ \E i, j \in DOMAIN reportsStore :
              /\ i # j
              /\ reportsStore[i].caseId = c /\ reportsStore[j].caseId = c
              /\ \E a \in DOMAIN reportsStore[i].narrativeIndex,
                    b \in DOMAIN reportsStore[j].narrativeIndex :
                    KeyTriple(reportsStore[i].narrativeIndex[a])
                    = KeyTriple(reportsStore[j].narrativeIndex[b])

Merged == call.fn = "mergeNarrativeIndices" /\ call.done

\* C13: merge is idempotent: for every entry list A, merge([merge([A])])
\* equals merge([A]) as a sequence.
C13_MergeIdempotent ==
    Merged /\ Len(call.arg) = 1
    => mergeNarrativeIndices(<< call.ret >>) = call.ret

\* merge([A]) has dropped a repeated key of A.
C13_Witness ==
    /\ Merged /\ Len(call.arg) = 1
    /\ call.ret # <<>>
    /\ Len(call.ret) < Len(call.arg[1])

KeySet(index) == { KeyTriple(index[i]) : i \in DOMAIN index }

Reordered(indices) ==
    { [i \in DOMAIN indices |-> indices[f[i]]] : f \in Permutations(DOMAIN indices) }

\* C14: for every permutation of the input lists of merge the set of dedup
\* keys of the result is the same and is the set of dedup keys of the inputs:
\* no key is dropped and none appears twice.
C14_MergeOrderIndependent ==
    Merged
    => /\ KeySet(call.ret) = UNION { KeySet(call.arg[i]) : i \in DOMAIN call.arg }
       /\ NoTwoSameKey(call.ret)
       /\ \A perm \in Reordered(call.arg) :
             /\ KeySet(mergeNarrativeIndices(perm)) = KeySet(call.ret)
             /\ NoTwoSameKey(mergeNarrativeIndices(perm))

\* merge has run on lists sharing a key whose other order gives another sequence.
C14_Witness ==
    /\ Merged
    /\ Len(call.arg) > 1
    /\ KeySet(call.arg[1]) \cap KeySet(call.arg[2]) # {}
    /\ \E perm \in Reordered(call.arg) : mergeNarrativeIndices(perm) # call.ret

\* C15: a write issued with an empty caseId (report save, evidence save,
\* case-metadata save) is a silent no-op: it raises no error and leaves the
\* reports, evidence and case-metadata stores and the replica unchanged.
C15_EmptyCaseIdNoOp ==
    call.fn \in {"saveReport", "saveEvidence", "saveCaseMetadata"} /\ call.caseId = ""
    => /\ call.ret = "resolved"
       /\ << reportsStore, evidenceStore, metaStore, replica >> = call.before

\* C16: saveCaseMetadata(caseId, fields) merges into the stored aggregate:
\* the aggregate of caseId has the given fields at their new values, and every
\* attribute stored before and not named in fields keeps its value.
C16_MetadataUpsertMerges ==
    call.fn = "saveCaseMetadata" /\ call.caseId # ""
    => LET c == call.caseId
           before == call.before[3]
       IN /\ c \in DOMAIN metaStore
          /\ \A k \in DOMAIN call.arg : metaStore[c][k] = call.arg[k]
          /\ c \in DOMAIN before
             => \A k \in DOMAIN before[c] \ DOMAIN call.arg :
                   /\ k \in DOMAIN metaStore[c]
                   /\ metaStore[c][k] = before[c][k]

\* C17: every EvidenceFile persisted through handleSubmit carries a fileHash
\* equal to the digest of its own binary payload, also when two files of the
\* list have the same name and when hashing had not finished at submission.
C17_FileHashOfPayload ==
    \A i \in DOMAIN evidenceStore :
        evidenceStore[i].fileHash = calculateSHA256(evidenceStore[i].binaryData)

Offline == call.fn = "runOfflineForensics" /\ call.done

FixedSections ==
    << "## 1. Executive Summary", "## 2. Timeline of Events",
       "## 3. File Integrity Analysis (Brain B2)", "## 4. Metadata Analysis (Brain B3)",
       "## 5. Pattern Analysis", "## 6. Evidence Breakdown",
       "## 7. Strategic Recommendations", "## 8. Conclusion" >>

Count(lines, l) == Cardinality({ i \in DOMAIN lines : lines[i] = l })
LineOf(lines, l) == CHOOSE i \in DOMAIN lines : lines[i] = l

\* Every fixed section heading occurs once, in the fixed order.
WellFormed(report) ==
    /\ \A k \in DOMAIN FixedSections : Count(report, FixedSections[k]) = 1
    /\ \A k \in 1..(Len(FixedSections) - 1) :
          LineOf(report, FixedSections[k]) < LineOf(report, FixedSections[k + 1])

\* C18: the offline engine given zero evidence descriptors (no file and no
\* descriptor) raises no error and returns a well-formed report that states,
\* in its header and in its conclusion, that 0 files were analyzed, and that
\* has every fixed section.
C18_ZeroDescriptorsReport ==
    Offline /\ call.arg.files = <<>> /\ call.arg.localForensics = <<>>
    => /\ ~call.ret.threw
       /\ WellFormed(call.ret.report)
       /\ InSeq("**Files Analyzed:** 0", call.ret.report)
       /\ InSeq("Offline forensic analysis completed successfully. 0 file(s) analyzed"
                \o " with cryptographic sealing applied.", call.ret.report)

\* The engine has returned from a call with no evidence.
C18_Witness ==
    Offline /\ call.arg.files = <<>> /\ call.arg.localForensics = <<>>
    /\ call.ret.report # <<>>

\* C19: the offline pipeline is total: for every descriptor list, also with
\* descriptors lacking type, digest or lastModified, runOfflineForensics
\* completes and returns a well-formed report.
C19_OfflineTotal ==
    Offline => ~call.ret.threw /\ WellFormed(call.ret.report)

FiftyMiB == 52428800

\* The lines of the metadata-anomaly section, below its heading.
MetadataSection(report) ==
    SubSeq(report, LineOf(report, FixedSections[4]) + 1,
           LineOf(report, FixedSections[5]) - 1)

MissingTypeLine(name) == "- **" \o name \o "**: Missing MIME type information"
EmptyFileLine(name) == "- **" \o name \o "**: WARNING - File is empty (0 bytes)"
LargeFileLine(name, size) ==
    "- **" \o name \o "**: Large file (" \o toFixed2(size, 1024 * 1024)
    \o " MB) - may indicate data dump"
NoAnomaliesLine == "All files have complete metadata. No anomalies detected."

TypeMissing(f) == ~Has(f, "type") \/ f.type = ""

\* C20: in the metadata-anomaly section of a report a missing-type line is
\* emitted for exactly the descriptors whose type is missing or empty, an
\* empty-file warning for exactly those of size 0 and a large-file line for
\* exactly those of more than 52428800 bytes; the no-anomalies statement is
\* emitted, once, if and only if no such line is.
C20_MetadataAnomalies ==
    Offline /\ ~call.ret.threw
    => LET lf == call.arg.localForensics
           sec == MetadataSection(call.ret.report)
           Same(f, P(_)) ==
               Cardinality({ j \in DOMAIN lf : lf[j].name = f.name /\ P(lf[j]) })
           IsLarge(g) == g.size > FiftyMiB
           IsEmpty(g) == g.size = 0
           issueLines == { i \in DOMAIN sec :
                             sec[i] \notin {"", "**Metadata Anomalies Detected:**",
                                            NoAnomaliesLine} }
       IN /\ \A i \in DOMAIN lf :
                LET f == lf[i]
                    LargeAs(g) == IsLarge(g) /\ g.size = f.size
                IN /\ Count(sec, MissingTypeLine(f.name)) = Same(f, TypeMissing)
                   /\ Count(sec, EmptyFileLine(f.name)) = Same(f, IsEmpty)
                   /\ Count(sec, LargeFileLine(f.name, f.size)) = Same(f, LargeAs)
          /\ \A i \in issueLines :
                \E j \in DOMAIN lf :
                   \/ sec[i] = MissingTypeLine(lf[j].name) /\ TypeMissing(lf[j])
                   \/ sec[i] = EmptyFileLine(lf[j].name) /\ IsEmpty(lf[j])
                   \/ sec[i] = LargeFileLine(lf[j].name, lf[j].size) /\ IsLarge(lf[j])
          /\ Count(sec, NoAnomaliesLine) = (IF issueLines = {} THEN 1 ELSE 0)

\* A report on a file of exactly 50 MiB beside an empty file.
C20_Witness ==
    /\ Offline /\ ~call.ret.threw
    /\ \E i, j \in DOMAIN call.arg.localForensics :
          /\ call.arg.localForensics[i].size = FiftyMiB
          /\ call.arg.localForensics[j].size = 0

\* The lines of the pattern-analysis section, below its heading.
PatternSection(report) ==
    SubSeq(report, LineOf(report, FixedSections[5]) + 1,
           LineOf(report, FixedSections[6]) - 1)

GapLine(hours, a, b) ==
    "- Gap of " \o ToString(hours) \o " hours between \"" \o a \o "\" and \"" \o b \o "\""

\* The lines of the pattern-analysis section that are no gap lines: the
\* block headings and the file-type counts.
OtherPatternLines(lf) ==
    {"", "**File Type Distribution:**", "**Temporal Anomalies:**"}
    \cup { "- " \o TypeOr(lf[i], "unknown") \o ": " \o ToString(n) \o " file(s)" :
              i \in DOMAIN lf, n \in DOMAIN lf }

\* A distance in half hours rounded to whole hours, a half rounded up.
RoundedHours(halfHours) ==
    CHOOSE h \in 0..64 : 2 * h - 1 <= halfHours /\ halfHours < 2 * h + 1

\* The pair is separated by strictly more than 24 hours.
MoreThanADay(a, b) ==
    Has(a, "lastModified") /\ Has(b, "lastModified") /\ b.lastModified - a.lastModified > 48

\* The lines of the timeline section, below its heading.
TimelineSection(report) ==
    SubSeq(report, LineOf(report, FixedSections[2]) + 1,
           LineOf(report, FixedSections[3]) - 1)

TimelineLine(f) ==
    "- **" \o toLocaleString(f) \o "**: File \"" \o f.name \o "\" created/modified"

\* The descriptors in the order in which the timeline of the report lists them.
TimelineOrder(lf, report) ==
    CHOOSE s \in { [i \in DOMAIN lf |-> lf[pi[i]]] : pi \in Permutations(DOMAIN lf) } :
        SelectSeq(TimelineSection(report), LAMBDA l : l # "")
          = [i \in DOMAIN s |-> TimelineLine(s[i])]

\* C21: over the timeline sorted by lastModified a gap line is emitted for an
\* adjacent pair if and only if the pair is more than 24 hours apart, and it
\* states the gap rounded to whole hours; the temporal block is absent when
\* no pair exceeds the threshold.
C21_TemporalGaps ==
    Offline /\ ~call.ret.threw
    => LET sorted == TimelineOrder(call.arg.localForensics, call.ret.report)
           sec == PatternSection(call.ret.report)
           IsGap(l) == l \notin OtherPatternLines(sorted)
           pairs == SelectSeq([i \in 1..(Len(sorted) - 1) |-> << sorted[i], sorted[i + 1] >>],
                              LAMBDA p : MoreThanADay(p[1], p[2]))
           expected == [k \in DOMAIN pairs |->
                          GapLine(RoundedHours(pairs[k][2].lastModified
                                               - pairs[k][1].lastModified),
                                  pairs[k][1].name, pairs[k][2].name)]
       IN /\ SelectSeq(sec, IsGap) = expected
          /\ Count(sec, "**Temporal Anomalies:**") = (IF expected = <<>> THEN 0 ELSE 1)

\* A report on two files 30 hours apart.
C21_Witness ==
    /\ Offline /\ ~call.ret.threw
    /\ InSeq(GapLine(30, "a.pdf", "b.txt"), call.ret.report)

\* The positions of lf in ascending date, equal dates in input order.
Earlier(lf, i, j) ==
    \/ lf[i].lastModified < lf[j].lastModified
    \/ lf[i].lastModified = lf[j].lastModified /\ i < j

\* C26: the timeline of the offline report lists every input descriptor
\* exactly once, in ascending lastModified order, descriptors of equal
\* lastModified in their input order; the input list itself is unmodified.
C26_TimelineStableSort ==
    Offline /\ ~call.ret.threw
    /\ (\A i \in DOMAIN call.arg.localForensics :
           Has(call.arg.localForensics[i], "lastModified"))
    => LET lf == call.arg.localForensics
           lines == SelectSeq(TimelineSection(call.ret.report), LAMBDA l : l # "")
           rank(i) == 1 + Cardinality({ j \in DOMAIN lf : Earlier(lf, j, i) })
       IN /\ Len(lines) = Len(lf)
          /\ \A i \in DOMAIN lf : lines[rank(i)] = TimelineLine(lf[i])
          /\ call.ret.localForensics = lf

\* A report on two files of equal date and different names, the later in
\* the alphabet given first.
C26_Witness ==
    /\ Offline /\ ~call.ret.threw
    /\ Len(call.arg.localForensics) = 2
    /\ call.arg.localForensics[1].name = "h.log"
    /\ call.arg.localForensics[2].name = "b.txt"

\* The title of the most recent well-formed level-2 heading among the first
\* n lines of the text, empty when there is none.
CarriedSection(text, n) ==
    LET h2s == { i \in 1..n : text[i].hashes = 2 /\ text[i].gap /\ text[i].text # "" }
    IN IF h2s = {} THEN ""
       ELSE text[CHOOSE i \in h2s : \A j \in h2s : j <= i].text

\* C25: in extractNarrativeIndex the parent of every subsection entry and the
\* context of every entity entry is the title of the most recent level-2
\* heading at or before the entry's line, empty when there is none; level-3
\* headings and lines that are no well-formed heading do not change it.
C25_CarriedSection ==
    call.fn = "extractNarrativeIndex" /\ call.done
    => \A k \in DOMAIN call.ret :
          call.ret[k].type \in {"subsection", "entity"}
          => call.ret[k].parent = CarriedSection(call.arg, call.ret[k].line + 1)

\* The index of '## Summary', '### Detail', 'by **Jane Doe**'.
C25_Witness ==
    /\ call.fn = "extractNarrativeIndex" /\ call.done
    /\ Len(call.arg) = 3
    /\ h2Match(call.arg[1]) /\ h3Match(call.arg[2]) /\ call.arg[3].people # <<>>
    /\ \E k \in DOMAIN call.ret :
          call.ret[k].type = "entity" /\ call.ret[k].parent = "Summary"

\* The narrative indexes of the Reports stored for case c, in getReports order.
StoredIndexes(c) ==
    LET rs == LS_getReports(reportsStore, c)
    IN [i \in DOMAIN rs |-> rs[i].narrativeIndex]

\* C27: with same-case operations serialized, after every successful report
\* save the narrativeIndex of the Case aggregate is mergeNarrativeIndices of
\* the narrative indexes of all Reports stored for the case, in getReports
\* order: a full recompute, never an incremental result.
C27_FullRecompute ==
    \A p \in Tabs :
        hist[p].reportSaved /\ ~hist[p].disturbed
        => /\ cur[p].caseId \in DOMAIN metaStore
           /\ metaStore[cur[p].caseId].narrativeIndex
                = mergeNarrativeIndices(StoredIndexes(cur[p].caseId))

\* A second report with other headings has been saved to a case: the
\* aggregate is longer than the index of either report.
C27_Witness ==
    \E p \in Tabs :
        /\ hist[p].reportSaved /\ ~hist[p].disturbed
        /\ Len(StoredIndexes(cur[p].caseId)) = 2
        /\ \A i \in 1..2 :
              Len(metaStore[cur[p].caseId].narrativeIndex)
                > Len(StoredIndexes(cur[p].caseId)[i])

\* What the LocalStore holds for case c: its Reports, its EvidenceFiles and
\* its Case aggregate.
StoredFor(rs, es, ms, c) ==
    << SelectSeq(rs, LAMBDA r : r.caseId = c),
       SelectSeq(es, LAMBDA e : e.caseId = c),
       IF c \in DOMAIN ms THEN << ms[c] >> ELSE <<>> >>

\* C28: operations against different case identifiers are independent: under
\* any interleaving, a step that changes what is stored for a case is a write
\* of a tab working on that very case.
C28_CasesIndependent ==
    [][\A c \in Cases :
          StoredFor(reportsStore', evidenceStore', metaStore', c)
            # StoredFor(reportsStore, evidenceStore, metaStore, c)
          => \E p \in Tabs : /\ pc[p] = "local" /\ cur[p].caseId = c
                              /\ wr'[p] # wr[p]
                              /\ \A q \in Tabs \ {p} : wr'[q] = wr[q]]_vars

\* Two tabs are inside handleSubmit for different cases, and each case has a
\* Report and an aggregate stored.
C28_Witness ==
    \E p, q \in Tabs :
        /\ pc[p] # "idle" /\ pc[q] # "idle"
        /\ cur[p].caseId = "A" /\ cur[q].caseId = "B"
        /\ ReportCount("A") > 0 /\ ReportCount("B") > 0
        /\ {"A", "B"} \subseteq DOMAIN metaStore

\* The replica documents of one collection of case c.
ReplicaDocs(c, collection) ==
    { path \in DOMAIN replica :
        Len(path) = 4 /\ path[2] = c /\ path[3] = collection }

\* C30: distinct records replicated for one case occupy distinct replica
\* documents: with a replica configured, every Report and every EvidenceFile
\* saved for a case has a replica document of its own, whatever the clock
\* readings at the sync calls.
C30_DistinctReplicaDocs ==
    syncAvailable
    => \A c \in ApiCases \ {""} :
          /\ Cardinality(ReplicaDocs(c, "reports")) = ReportCount(c)
          /\ Cardinality(ReplicaDocs(c, "evidence")) = EvidenceCount(c)

\* The run that settles in this step is the one started for the file list as
\* it is now.
SettlesCurrent(p) ==
    \E r \in DOMAIN runs[p] :
        runs'[p] = Without(runs[p], r) /\ runs[p][r] = files[p] /\ files'[p] = files[p]

\* C22: a digest failure is fatal for that evidence item only: when the
\* hashing run of the current file list settles with one file failing, the
\* descriptors (with digests) of all sibling files are in localForensics.
C22_DigestFailureIsolated ==
    [][\A p \in Tabs :
          SettlesCurrent(p)
          => \A i \in DOMAIN files[p] :
                Readable(files[p][i])
                => \E j \in DOMAIN localForensics'[p] :
                      localForensics'[p][j] = Descriptor(files[p][i])]_vars

\* C29: once every hashing run has finished, localForensics holds exactly one
\* descriptor per file of the current file list, in the same order, whatever
\* the order in which overlapping runs completed.
C29_LatestRunWins ==
    \A p \in Tabs :
        runs[p] = <<>> /\ (\A i \in DOMAIN files[p] : Readable(files[p][i]))
        => localForensics[p] = Analysis(files[p])

\* What the tab shows is a report of the offline engine.
OfflineReportShown(p) ==
    result[p] # <<>> /\ result[p][1] = "# OFFLINE FORENSIC ANALYSIS REPORT"

\* The descriptors a report lists: by its integrity blocks, and by the full
\* digests of its final seal summary.
IntegrityBlocks(report) ==
    Count(report, "- **Integrity Status:** Hash calculated and sealed")
SealedDigests(report) ==
    LineOf(report, "---") - LineOf(report, "**Cryptographic Seal Summary:**") - 2

\* C24: in every offline report produced by handleSubmit, the file count
\* stated in the header and in the conclusion equals the number of evidence
\* descriptors whose integrity blocks and full digests the report lists.
C24_FileCountMatchesDescriptors ==
    \A p \in Tabs :
        OfflineReportShown(p)
        => LET n == IntegrityBlocks(result[p])
           IN /\ SealedDigests(result[p]) = n
              /\ InSeq("**Files Analyzed:** " \o ToString(n), result[p])
              /\ InSeq("Offline forensic analysis completed successfully. "
                       \o ToString(n)
                       \o " file(s) analyzed with cryptographic sealing applied.",
                       result[p])

\* C23: the operator is never left with no report: whenever handleSubmit has
\* run with at least one file and the reasoning service could not be reached
\* (here: its call failed with a network error), a report of the offline
\* engine is eventually shown.
C23_NeverNoReport ==
    \A p \in Tabs :
        (files[p] # <<>> /\ errorInfo[p] = "NET_ERR")
        ~> (view[p] = "report" /\ OfflineReportShown(p))

====
